---- MODULE Spec2Model ----
(***************************************************************************)
(* A model of the x-math planar geometry library: the value types Rect,    *)
(* Box, Size and Coordinate and their operations.                          *)
(*                                                                         *)
(* Objects live in a heap, a function from object names to records that    *)
(* carry the class (cls) and the numeric fields.  Every operation is an    *)
(* operator from a heap and references to a record [heap, ret]: the heap   *)
(* after the call and the value returned.  The numbers of the source are   *)
(* IEEE doubles: a field of a Rect or a Box holds a small whole number as   *)
(* an integer, on which the arithmetic of the source is exact, and any      *)
(* other number as a double whose sums, differences, products, quotients    *)
(* and roots are rounded as the source rounds them.                         *)
(***************************************************************************)
EXTENDS Integers, Sequences, FiniteSets, TLC

VARIABLES heap,   \* the objects the caller holds
          heap0,  \* the heap as it was before the last call
          op,     \* the name of the last operation called
          this,   \* the receiver of the last call ("none" for a static call)
          argv,   \* the references and numbers passed to the last call
          ret     \* the value the last call returned

vars == <<heap, heap0, op, this, argv, ret>>

----------------------------------------------------------------------------
(* Bounds of the model *)

MaxPos == 1   \* left and top of an initial Rect range over 0..MaxPos
MaxExt == 3   \* width and height of an initial Rect range up to MaxExt
NegExt == 1   \* ... and down to -NegExt

Pos == 0..MaxPos
Ext == (0 - NegExt)..MaxExt

----------------------------------------------------------------------------
(* Values: what a call can return *)

Null == [kind |-> "null"]
Undefined == [kind |-> "undefined"]
Bool(v) == [kind |-> "bool", val |-> v]
Ref(id) == [kind |-> "ref", id |-> id]
New(obj) == [kind |-> "new", obj |-> obj]
Arr(elems) == [kind |-> "array", elems |-> elems]
Num(n) == [kind |-> "num", val |-> n]
Throw(e) == [kind |-> "throw", error |-> e]

NullRef == "null"

Max(x, y) == IF x >= y THEN x ELSE y
Min(x, y) == IF x <= y THEN x ELSE y

----------------------------------------------------------------------------
(* Doubles.  A number of the source is an IEEE binary64 double: a         *)
(* significand of P binary digits and an exponent, and the results of     *)
(* + - * / and Math.sqrt are rounded to nearest, ties to even.            *)

P == 53

\* the exponent of the leading binary digit of n, for 1 <= n < 2^30
Log2(n) == CHOOSE k \in 0..29 : 2^k <= n /\ n < 2^(k + 1)

\* the binary digits of a natural number below 2^30, most significant first
Binary(n) ==
  IF n = 0 THEN <<>>
  ELSE [i \in 1..(Log2(n) + 1) |-> (n \div 2^(Log2(n) + 1 - i)) % 2]

\* the k binary digits of a natural number below 2^k
Digits(n, k) == [i \in 1..k |-> (n \div 2^(k - i)) % 2]

\* A double: the P-bit significand bits (bits[1] = 1) and the exponent e of
\* its leading bit
Double(e, bits) == [e |-> e, bits |-> bits]

\* A number with its sign: a finite double, a zero, an infinity or NaN
Finite(neg, abs) == [kind |-> "finite", neg |-> neg, abs |-> abs]
Zero(neg) == [kind |-> "zero", neg |-> neg]
Infinity(neg) == [kind |-> "infinity", neg |-> neg]
NaN == [kind |-> "nan"]

\* bits + 1 in the last place
Increment(e, bits) ==
  IF \A i \in 1..P : bits[i] = 1
  THEN Double(e + 1, [i \in 1..P |-> IF i = 1 THEN 1 ELSE 0])
  ELSE LET j == CHOOSE i \in 1..P : bits[i] = 0 /\ \A k \in (i + 1)..P : bits[k] = 1
       IN Double(e, [i \in 1..P |-> IF i < j THEN bits[i] ELSE IF i = j THEN 1 ELSE 0])

\* Round to nearest, ties to even: digits is an exact binary expansion with
\* leading digit 1 of weight 2^e
RoundToNearest(e, digits) ==
  IF Len(digits) <= P
  THEN Double(e, [i \in 1..P |-> IF i <= Len(digits) THEN digits[i] ELSE 0])
  ELSE LET keep == [i \in 1..P |-> digits[i]]
           sticky == \E i \in (P + 2)..Len(digits) : digits[i] = 1
           up == digits[P + 1] = 1 /\ (sticky \/ keep[P] = 1)
       IN IF up THEN Increment(e, keep) ELSE Double(e, keep)

FromInt(n) == RoundToNearest(Log2(n), Binary(n))

IsInt(x) == x.e >= 0 /\ x.e < 18 /\ \A i \in (x.e + 2)..P : x.bits[i] = 0

\* the number written by the digits bits[from..to], at most 18 of them
RECURSIVE Value(_, _, _)
Value(bits, from, to) ==
  IF to < from THEN 0 ELSE 2 * Value(bits, from, to - 1) + bits[to]

ToInt(x) == Value(x.bits, 1, x.e + 1)

\* 2^k modulo d, for k <= 52
Pow2Mod(k, d) ==
  IF k <= 26 THEN 2^k % d ELSE ((2^26 % d) * (2^(k - 26) % d)) % d

\* t / w of two positive integers.  With num / den the quotient scaled into
\* [1, 2), the remainder left after k digits behind the point is
\* num * 2^k modulo den; a last digit tells whether anything is left.
DivideInts(t, w) ==
  LET e == IF t >= w THEN Log2(t \div w)
           ELSE 0 - (CHOOSE k \in 1..29 : t * 2^k >= w /\ t * 2^(k - 1) < w)
      num == IF e < 0 THEN t * 2^(0 - e) ELSE t
      den == IF e > 0 THEN w * 2^e ELSE w
      rem(k) == ((num % den) * Pow2Mod(k, den)) % den
      digits == [i \in 1..(P + 2) |->
                   IF i = 1 THEN 1
                   ELSE IF i = P + 2 THEN (IF rem(P) > 0 THEN 1 ELSE 0)
                   ELSE IF 2 * rem(i - 2) >= den THEN 1 ELSE 0]
  IN RoundToNearest(e, digits)

\* n * x of a positive integer below 32 and a double: the significand is
\* multiplied in three parts of at most 18 digits, low part first; a
\* product of 2^1024 or more is Infinity
MultiplyDigits(n, bits) ==
  LET low == n * Value(bits, 36, 53)
      mid == n * Value(bits, 18, 35) + low \div 2^18
      high == n * Value(bits, 1, 17) + mid \div 2^18
  IN Binary(high) \o Digits(mid % 2^18, 18) \o Digits(low % 2^18, 18)

Capped(rounded) == IF rounded.e > 1023 THEN Infinity(FALSE) ELSE rounded

MultiplyInt(n, x) ==
  LET digits == MultiplyDigits(n, x.bits)
  IN Capped(RoundToNearest(x.e + Len(digits) - P, digits))

Less(x, y) ==
  \/ x.e < y.e
  \/ /\ x.e = y.e
     /\ \E i \in 1..P : x.bits[i] < y.bits[i] /\ \A j \in 1..(i - 1) : x.bits[j] = y.bits[j]

AtMost(x, y) == ~Less(y, x)

\* x / y and x * y; the digits are worked out for an x (and a divisor y)
\* that holds an integer, as the fields of a constructed Size here do
Quotient(x, y) == DivideInts(ToInt(x), ToInt(y))
Product(x, y) == MultiplyInt(ToInt(x), y)

----------------------------------------------------------------------------
(* Doubles with their sign: a finite double, a signed zero, an infinity    *)
(* or NaN; + - * / and Math.sqrt round to nearest, ties to even, and a     *)
(* product too small for a double is rounded to the nearest of the         *)
(* doubles down to 2^-1074, or to zero.                                    *)

\* the double that holds the integer n
Number(n) ==
  IF n = 0 THEN Zero(FALSE)
  ELSE IF n < 0 THEN Finite(TRUE, FromInt(0 - n)) ELSE Finite(FALSE, FromInt(n))

\* a double given by its sign, the exponent of its leading digit, and its
\* significand in two parts: the leading 26 digits and the 27 that follow
Parts(neg, e, high, low) == Finite(neg, Double(e, Digits(high, 26) \o Digits(low, 27)))

\* the number holds an integer (below 2^18 in size)
IsWhole(x) == x.kind = "zero" \/ (x.kind = "finite" /\ IsInt(x.abs))

\* -x
Negative(x) == IF x.kind = "nan" THEN x ELSE [x EXCEPT !.neg = ~x.neg]

\* A natural number below 2^60 in three limbs of 20 binary digits
Base == 2^20
Limbs(high, mid, low) == <<high, mid, low>>

\* n * 2^k + c, for k of 1 or 2 and c < 2^k
Shifted(n, k, c) ==
  LET low == n[3] * 2^k + c
      mid == n[2] * 2^k + low \div Base
      high == n[1] * 2^k + mid \div Base
  IN Limbs(high, mid % Base, low % Base)

NotBelow(n, m) ==
  \/ n[1] > m[1]
  \/ n[1] = m[1] /\ n[2] > m[2]
  \/ n[1] = m[1] /\ n[2] = m[2] /\ n[3] >= m[3]

\* n - m, for n not below m
Subtracted(n, m) ==
  LET low == n[3] - m[3]
      mid == n[2] - m[2] - (IF low < 0 THEN 1 ELSE 0)
      high == n[1] - m[1] - (IF mid < 0 THEN 1 ELSE 0)
  IN Limbs(high, IF mid < 0 THEN mid + Base ELSE mid, IF low < 0 THEN low + Base ELSE low)

\* the P digits of a significand as a number
Significand(bits) == Limbs(Value(bits, 1, 13), Value(bits, 14, 33), Value(bits, 34, 53))

\* digits without their leading zeros (some digit is 1)
Trimmed(digits) ==
  LET first == CHOOSE i \in 1..Len(digits) :
                 digits[i] = 1 /\ \A j \in 1..(i - 1) : digits[j] = 0
  IN SubSeq(digits, first, Len(digits))

\* One digit of a long division by d: s holds the remainder (below d) and
\* the digits found so far
DivisionStep(s, d) ==
  CHOOSE next \in
    {LET twice == Shifted(t[1], 1, 0)
     IN IF NotBelow(twice, d)
        THEN <<Subtracted(twice, d), Append(t[2], 1)>>
        ELSE <<twice, Append(t[2], 0)>> : t \in {s}} : TRUE

EightDigits(s, d) ==
  DivisionStep(DivisionStep(DivisionStep(DivisionStep(
    DivisionStep(DivisionStep(DivisionStep(DivisionStep(s, d), d), d), d), d), d), d), d)

\* 8 * n further digits of the quotient, then one digit telling whether
\* anything is left
RECURSIVE LongDivision(_, _, _)
LongDivision(s, d, n) ==
  IF n = 0 THEN Append(s[2], IF s[1] = Limbs(0, 0, 0) THEN 0 ELSE 1)
  ELSE CHOOSE q \in {LongDivision(t, d, n - 1) : t \in {EightDigits(s, d)}} : TRUE

\* One digit of a square root: s holds what is left of the pairs taken, the
\* root so far as a number and as digits, and the place k of the next of
\* the 27 pairs of wide (pairs of zeros follow them)
RootStep(s, wide) ==
  CHOOSE next \in
    {LET k == t[4]
         pair == IF k <= 27 THEN 2 * wide[2 * k - 1] + wide[2 * k] ELSE 0
         taken == Shifted(t[1], 2, pair)
         trial == Shifted(t[2], 2, 1)
     IN IF NotBelow(taken, trial)
        THEN <<Subtracted(taken, trial), Shifted(t[2], 1, 1), Append(t[3], 1), k + 1>>
        ELSE <<taken, Shifted(t[2], 1, 0), Append(t[3], 0), k + 1>> : t \in {s}} : TRUE

EightRootDigits(s, wide) ==
  RootStep(RootStep(RootStep(RootStep(
    RootStep(RootStep(RootStep(RootStep(s, wide), wide), wide), wide), wide), wide), wide), wide)

\* 8 * n further digits of the root, then one digit telling whether
\* anything is left
RECURSIVE RootDigits(_, _, _)
RootDigits(s, wide, n) ==
  IF n = 0 THEN Append(s[3], IF s[1] = Limbs(0, 0, 0) THEN 0 ELSE 1)
  ELSE CHOOSE q \in {RootDigits(t, wide, n - 1) : t \in {EightRootDigits(s, wide)}} : TRUE

\* the square root of a double above zero: the significand, doubled when
\* the exponent of its last digit is odd, is 54 digits taken in 27 pairs
Root(x) ==
  LET odd == (x.e - (P - 1)) % 2 = 1
      half == IF odd THEN (x.e - P) \div 2 ELSE (x.e - (P - 1)) \div 2
  IN RoundToNearest(26 + half,
       CHOOSE q \in {RootDigits(<<Limbs(0, 0, 0), Limbs(0, 0, 0), <<>>, 1>>, wide, 7) :
                       wide \in {IF odd THEN x.bits \o <<0>> ELSE <<0>> \o x.bits}} : TRUE)

\* A natural number below 2^116 in four limbs of 29 binary digits, the
\* place two significands are added and subtracted in once they are lined up
Wide == 4 * 29
Limb29(digits, i) ==
  Value(digits, 29 * i - 28, 29 * i - 18) * 2^18 + Value(digits, 29 * i - 17, 29 * i)
\* digits, with after zeros behind them and zeros before, Wide in all
Padded(digits, after) ==
  [i \in 1..Wide |->
     IF i > Wide - after \/ i <= Wide - after - Len(digits) THEN 0
     ELSE digits[i - (Wide - after - Len(digits))]]

\* the digits of a sum of four limbs each, the carries taken upward
Carried(t1, t2, t3, t4) ==
  LET s3 == t3 + t4 \div 2^29
      s2 == t2 + s3 \div 2^29
      s1 == t1 + s2 \div 2^29
  IN Trimmed(Digits(s1, 30) \o Digits(s2 % 2^29, 29)
               \o Digits(s3 % 2^29, 29) \o Digits(t4 % 2^29, 29))

\* the digits of a difference of four limbs each, the borrows taken upward
Borrowed(u1, u2, u3, u4) ==
  LET d3 == u3 - (IF u4 < 0 THEN 1 ELSE 0)
      d2 == u2 - (IF d3 < 0 THEN 1 ELSE 0)
      d1 == u1 - (IF d2 < 0 THEN 1 ELSE 0)
  IN Trimmed(Digits(d1, 29) \o Digits((d2 + 2^29) % 2^29, 29)
               \o Digits((d3 + 2^29) % 2^29, 29)
               \o Digits((u4 + 2^29) % 2^29, 29))

\* a + b and a - b of two numbers of Wide digits
SumDigits(a, b) ==
  Carried(Limb29(a, 1) + Limb29(b, 1), Limb29(a, 2) + Limb29(b, 2),
          Limb29(a, 3) + Limb29(b, 3), Limb29(a, 4) + Limb29(b, 4))
DifferenceDigits(a, b) ==
  Borrowed(Limb29(a, 1) - Limb29(b, 1), Limb29(a, 2) - Limb29(b, 2),
           Limb29(a, 3) - Limb29(b, 3), Limb29(a, 4) - Limb29(b, 4))

\* the double of the digits, the last of them of weight 2^last
RoundedFrom(last, digits) == RoundToNearest(last + Len(digits) - 1, digits)

\* a rounded double of the sign given, an infinity from 2^1024 on
Bounded(neg, rounded) ==
  IF rounded.e > 1023 THEN Infinity(neg) ELSE Finite(neg, rounded)

\* x + y and x - y of two doubles above zero, x the larger; a y more than
\* 60 binary places below x is lost in the rounding.  The sum carries the
\* sign given and is an infinity from 2^1024 on.
Added(neg, x, y) ==
  IF x.e - y.e > 60 THEN Finite(neg, x)
  ELSE Bounded(neg, RoundedFrom(y.e - (P - 1),
                                SumDigits(Padded(x.bits, x.e - y.e), Padded(y.bits, 0))))

Taken(x, y) ==
  IF x.e - y.e > 60 THEN x
  ELSE RoundedFrom(y.e - (P - 1),
                   DifferenceDigits(Padded(x.bits, x.e - y.e), Padded(y.bits, 0)))

\* the larger and the smaller of two doubles above zero
Upper(x, y) == IF Less(x, y) THEN y ELSE x
Lower(x, y) == IF Less(x, y) THEN x ELSE y

\* x + y
Plus(x, y) ==
  IF x.kind = "nan" \/ y.kind = "nan" THEN NaN
  ELSE IF x.kind = "infinity"
       THEN (IF y.kind = "infinity" /\ y.neg # x.neg THEN NaN ELSE x)
  ELSE IF y.kind = "infinity" THEN y
  ELSE IF x.kind = "zero"
       THEN (IF y.kind = "zero" THEN Zero(x.neg /\ y.neg) ELSE y)
  ELSE IF y.kind = "zero" THEN x
  ELSE IF x.neg = y.neg
       THEN Added(x.neg, Upper(x.abs, y.abs), Lower(x.abs, y.abs))
  ELSE IF x.abs = y.abs THEN Zero(FALSE)
  ELSE Finite(IF Less(x.abs, y.abs) THEN y.neg ELSE x.neg,
              Taken(Upper(x.abs, y.abs), Lower(x.abs, y.abs)))

\* x - y
Minus(x, y) == Plus(x, Negative(y))

\* digits rounded to nearest, ties to even, at the first places of them
\* (1 <= places <= P); the leading digit has weight 2^e
RoundToPlaces(places, e, digits) ==
  IF Len(digits) <= places
  THEN Double(e, [i \in 1..P |-> IF i <= Len(digits) THEN digits[i] ELSE 0])
  ELSE LET keep == [i \in 1..P |-> IF i <= places THEN digits[i] ELSE 0]
           sticky == \E i \in (places + 2)..Len(digits) : digits[i] = 1
           up == digits[places + 1] = 1 /\ (sticky \/ keep[places] = 1)
       IN IF ~up THEN Double(e, keep)
          ELSE IF \A i \in 1..places : keep[i] = 1
          THEN Double(e + 1, [i \in 1..P |-> IF i = 1 THEN 1 ELSE 0])
          ELSE LET j == CHOOSE i \in 1..places :
                          keep[i] = 0 /\ \A k \in (i + 1)..places : keep[k] = 1
               IN Double(e, [i \in 1..P |->
                               IF i < j THEN keep[i] ELSE IF i = j THEN 1 ELSE 0])

\* the i-th of the four limbs of 14 digits of a significand
Limb14(bits, i) == Value(<<0, 0, 0>> \o bits, 14 * i - 13, 14 * i)

\* the digits of the product of two significands of four limbs each, summed
\* column by column from the lowest
ProductDigits(x1, x2, x3, x4, y1, y2, y3, y4) ==
  LET c8 == x4 * y4
      c7 == x3 * y4 + x4 * y3 + c8 \div 2^14
      c6 == x2 * y4 + x3 * y3 + x4 * y2 + c7 \div 2^14
      c5 == x1 * y4 + x2 * y3 + x3 * y2 + x4 * y1 + c6 \div 2^14
      c4 == x1 * y3 + x2 * y2 + x3 * y1 + c5 \div 2^14
      c3 == x1 * y2 + x2 * y1 + c4 \div 2^14
      c2 == x1 * y1 + c3 \div 2^14
  IN Trimmed(Digits(c2, 22) \o Digits(c3 % 2^14, 14) \o Digits(c4 % 2^14, 14)
               \o Digits(c5 % 2^14, 14) \o Digits(c6 % 2^14, 14)
               \o Digits(c7 % 2^14, 14) \o Digits(c8 % 2^14, 14))

SignificandProduct(x, y) ==
  ProductDigits(Limb14(x, 1), Limb14(x, 2), Limb14(x, 3), Limb14(x, 4),
                Limb14(y, 1), Limb14(y, 2), Limb14(y, 3), Limb14(y, 4))

\* The double, of the sign given, of digits whose leading one has weight
\* 2^e.  The smallest double above zero is 2^-1074: a number below 2^-1022
\* keeps the digits down to that place only (places of them), one of at most
\* 2^-1075 is zero, and one of 2^1024 or more is an infinity.
Placed(neg, e, places, digits) ==
  IF places < 0 THEN Zero(neg)
  ELSE IF places = 0
       THEN (IF \E i \in 2..Len(digits) : digits[i] = 1
             THEN Finite(neg, Double(e + 1, [i \in 1..P |-> IF i = 1 THEN 1 ELSE 0]))
             ELSE Zero(neg))
  ELSE Bounded(neg, IF places >= P THEN RoundToNearest(e, digits)
                    ELSE RoundToPlaces(places, e, digits))

\* digits whose last one has weight 2^last
PlacedFrom(neg, last, digits) ==
  Placed(neg, last + Len(digits) - 1, last + Len(digits) - 1 + 1075, digits)

\* the product of two doubles above zero, of the sign given
Multiplied(neg, x, y) ==
  PlacedFrom(neg, x.e + y.e - 2 * (P - 1), SignificandProduct(x.bits, y.bits))

\* x * y
Times(x, y) ==
  IF x.kind = "nan" \/ y.kind = "nan" THEN NaN
  ELSE IF x.kind = "infinity" \/ y.kind = "infinity"
       THEN (IF x.kind = "zero" \/ y.kind = "zero" THEN NaN
             ELSE Infinity(x.neg # y.neg))
  ELSE IF x.kind = "zero" \/ y.kind = "zero" THEN Zero(x.neg # y.neg)
  ELSE Multiplied(x.neg # y.neg, x.abs, y.abs)

\* The quotient of two significands, its leading digit of weight 2^e when
\* num is not below den and 2^(e - 1) otherwise, of the sign given
QuotientPlaced(neg, e, num, den) ==
  IF NotBelow(num, den)
  THEN Placed(neg, e, e + 1075, LongDivision(<<Subtracted(num, den), <<1>>>>, den, 7))
  ELSE Placed(neg, e - 1, e + 1074, LongDivision(<<num, <<>>>>, den, 7))

\* the quotient of two doubles above zero, of the sign given
Divided(neg, x, y) ==
  QuotientPlaced(neg, x.e - y.e, Significand(x.bits), Significand(y.bits))

\* x / y
Over(x, y) ==
  IF x.kind = "nan" \/ y.kind = "nan" THEN NaN
  ELSE IF x.kind = "infinity"
       THEN (IF y.kind = "infinity" THEN NaN ELSE Infinity(x.neg # y.neg))
  ELSE IF y.kind = "infinity" THEN Zero(x.neg # y.neg)
  ELSE IF y.kind = "zero"
       THEN (IF x.kind = "zero" THEN NaN ELSE Infinity(x.neg # y.neg))
  ELSE IF x.kind = "zero" THEN Zero(x.neg # y.neg)
  ELSE Divided(x.neg # y.neg, x.abs, y.abs)

\* Math.sqrt
SquareRoot(x) ==
  IF x.kind = "nan" THEN NaN
  ELSE IF x.kind = "zero" THEN x
  ELSE IF x.neg THEN NaN
  ELSE IF x.kind = "infinity" THEN x
  ELSE Finite(FALSE, Root(x.abs))

\* x < y, x == y and x <= y: false when either is NaN; the two zeros are equal
LessThan(x, y) ==
  IF x.kind = "nan" \/ y.kind = "nan" THEN FALSE
  ELSE IF x.kind = "zero" THEN (IF y.kind = "zero" THEN FALSE ELSE ~y.neg)
  ELSE IF y.kind = "zero" THEN x.neg
  ELSE IF x.neg # y.neg THEN x.neg
  ELSE IF x.kind = "infinity" THEN x.neg /\ y.kind # "infinity"
  ELSE IF y.kind = "infinity" THEN ~y.neg
  ELSE IF x.neg THEN Less(y.abs, x.abs)
  ELSE Less(x.abs, y.abs)

Equal(x, y) ==
  IF x.kind = "nan" \/ y.kind = "nan" THEN FALSE
  ELSE IF x.kind = "zero" /\ y.kind = "zero" THEN TRUE
  ELSE x = y

LessOrEqual(x, y) == LessThan(x, y) \/ Equal(x, y)

\* Math.max and Math.min: NaN if either is NaN, and -0 is below +0
Larger(x, y) ==
  IF x.kind = "nan" \/ y.kind = "nan" THEN NaN
  ELSE IF x.kind = "zero" /\ y.kind = "zero" THEN Zero(x.neg /\ y.neg)
  ELSE IF LessThan(x, y) THEN y ELSE x

Smaller(x, y) ==
  IF x.kind = "nan" \/ y.kind = "nan" THEN NaN
  ELSE IF x.kind = "zero" /\ y.kind = "zero" THEN Zero(x.neg \/ y.neg)
  ELSE IF LessThan(y, x) THEN y ELSE x

----------------------------------------------------------------------------
(* Numbers.  A field holds a number of the source, a double.  A whole     *)
(* number of small size is held as an integer of TLA+, on which + - and *  *)
(* are the exact ones (the sum, difference or product of two such doubles  *)
(* is exact as well); any other number is held as a double, digit by       *)
(* digit.  The operators below are the source's + - * < <= == Math.max,    *)
(* Math.min, Math.sqrt and ! on numbers held either way.                   *)

\* Whether a number is held as an integer.  TLA+ has no test of the kind of
\* a value, so the value is told by its written form: that of an integer has
\* at most 11 characters, that of a double more.
IsInteger(v) == Len(ToString(v)) <= 11

\* the number as a double
AsDouble(v) == IF IsInteger(v) THEN Number(v) ELSE v

Add(x, y) ==
  IF IsInteger(x) /\ IsInteger(y) THEN x + y ELSE Plus(AsDouble(x), AsDouble(y))

Sub(x, y) ==
  IF IsInteger(x) /\ IsInteger(y) THEN x - y ELSE Minus(AsDouble(x), AsDouble(y))

\* the product of zero and a number below zero is -0
Mul(x, y) ==
  IF IsInteger(x) /\ IsInteger(y)
  THEN (IF x * y = 0 /\ (x < 0 \/ y < 0) THEN Zero(TRUE) ELSE x * y)
  ELSE Times(AsDouble(x), AsDouble(y))

Lt(x, y) ==
  IF IsInteger(x) /\ IsInteger(y) THEN x < y ELSE LessThan(AsDouble(x), AsDouble(y))

Eq(x, y) ==
  IF IsInteger(x) /\ IsInteger(y) THEN x = y ELSE Equal(AsDouble(x), AsDouble(y))

Le(x, y) ==
  IF IsInteger(x) /\ IsInteger(y) THEN x <= y ELSE LessOrEqual(AsDouble(x), AsDouble(y))

Gt(x, y) == Lt(y, x)
Ge(x, y) == Le(y, x)

Math_max(x, y) ==
  IF IsInteger(x) /\ IsInteger(y) THEN Max(x, y) ELSE Larger(AsDouble(x), AsDouble(y))

Math_min(x, y) ==
  IF IsInteger(x) /\ IsInteger(y) THEN Min(x, y) ELSE Smaller(AsDouble(x), AsDouble(y))

\* !x of a number: true of 0, -0 and NaN
Not(x) == IF IsInteger(x) THEN x = 0 ELSE x.kind \in {"zero", "nan"}

\* Math.sqrt: the root of a perfect square is the whole number, any other
\* root is rounded
Math_sqrt(x) ==
  IF IsInteger(x)
  THEN (IF x >= 0 /\ \E k \in 0..x : k * k = x
        THEN CHOOSE k \in 0..x : k * k = x
        ELSE SquareRoot(Number(x)))
  ELSE SquareRoot(x)

----------------------------------------------------------------------------
(* Rect *)

Rect(x, y, w, h) == [cls |-> "Rect", left |-> x, top |-> y, width |-> w, height |-> h]

Box(top, right, bottom, left) ==
  [cls |-> "Box", top |-> top, right |-> right, bottom |-> bottom, left |-> left]

Rect_prototype_clone(r) == Rect(r.left, r.top, r.width, r.height)

Rect_prototype_toBox(h, t) ==
  LET right == Add(h[t].left, h[t].width)
      bottom == Add(h[t].top, h[t].height)
  IN [heap |-> h, ret |-> New(Box(h[t].top, right, bottom, h[t].left))]

Rect_createFromBox(box) ==
  New(Rect(box.left, box.top, Sub(box.right, box.left), Sub(box.bottom, box.top)))

\* a and b are values: Null, Ref(id) or New(obj)
Deref(h, v) == IF v.kind = "ref" THEN h[v.id] ELSE v.obj

Rect_equals(h, a, b) ==
  IF a.kind \in {"null", "ref"} /\ a = b THEN TRUE
  ELSE IF a.kind = "null" \/ b.kind = "null" THEN FALSE
  ELSE LET A == Deref(h, a)
           B == Deref(h, b)
       IN Eq(A.left, B.left) /\ Eq(A.width, B.width) /\
          Eq(A.top, B.top) /\ Eq(A.height, B.height)

Rect_prototype_intersection_strict(h, t, rect) ==
  LET x0 == Max(h[t].left, h[rect].left)
      x1 == Min(h[t].left + h[t].width, h[rect].left + h[rect].width)
      y0 == Max(h[t].top, h[rect].top)
      y1 == Min(h[t].top + h[t].height, h[rect].top + h[rect].height)
  IN IF x0 < x1 /\ y0 < y1
     THEN [heap |-> [h EXCEPT ![t].left = x0, ![t].top = y0,
                              ![t].width = x1 - x0, ![t].height = y1 - y0],
           ret |-> Bool(TRUE)]
     ELSE [heap |-> h, ret |-> Bool(FALSE)]

\* the fields assigned whether or not the rectangles overlap
Rect_prototype_intersection_unchecked(h, t, rect) ==
  LET x0 == Max(h[t].left, h[rect].left)
      x1 == Min(h[t].left + h[t].width, h[rect].left + h[rect].width)
      y0 == Max(h[t].top, h[rect].top)
      y1 == Min(h[t].top + h[t].height, h[rect].top + h[rect].height)
  IN [heap |-> [h EXCEPT ![t].left = x0, ![t].top = y0,
                         ![t].width = x1 - x0, ![t].height = y1 - y0],
      ret |-> Bool(TRUE)]

Rect_prototype_intersection(h, t, rect) ==
  LET x0 == Math_max(h[t].left, h[rect].left)
      x1 == Math_min(Add(h[t].left, h[t].width), Add(h[rect].left, h[rect].width))
      y0 == Math_max(h[t].top, h[rect].top)
      y1 == Math_min(Add(h[t].top, h[t].height), Add(h[rect].top, h[rect].height))
  IN IF Le(x0, x1) /\ Le(y0, y1)
     THEN [heap |-> [h EXCEPT ![t].left = x0, ![t].top = y0,
                              ![t].width = Sub(x1, x0), ![t].height = Sub(y1, y0)],
           ret |-> Bool(TRUE)]
     ELSE [heap |-> h, ret |-> Bool(FALSE)]

Rect_intersection_strict(h, a, b) ==
  LET x0 == Max(h[a].left, h[b].left)
      x1 == Min(h[a].left + h[a].width, h[b].left + h[b].width)
      y0 == Max(h[a].top, h[b].top)
      y1 == Min(h[a].top + h[a].height, h[b].top + h[b].height)
  IN IF x0 < x1 /\ y0 < y1
     THEN [heap |-> h, ret |-> New(Rect(x0, y0, x1 - x0, y1 - y0))]
     ELSE [heap |-> h, ret |-> Null]

Rect_intersection(h, a, b) ==
  LET x0 == Math_max(h[a].left, h[b].left)
      x1 == Math_min(Add(h[a].left, h[a].width), Add(h[b].left, h[b].width))
      y0 == Math_max(h[a].top, h[b].top)
      y1 == Math_min(Add(h[a].top, h[a].height), Add(h[b].top, h[b].height))
  IN IF Le(x0, x1) /\ Le(y0, y1)
     THEN [heap |-> h, ret |-> New(Rect(x0, y0, Sub(x1, x0), Sub(y1, y0)))]
     ELSE [heap |-> h, ret |-> Null]

Rect_intersects_strict(h, a, b) ==
  [heap |-> h,
   ret |-> Bool(h[a].left < h[b].left + h[b].width /\
                h[b].left < h[a].left + h[a].width /\
                h[a].top < h[b].top + h[b].height /\
                h[b].top < h[a].top + h[a].height)]

Rect_intersects(h, a, b) ==
  [heap |-> h,
   ret |-> Bool(Le(h[a].left, Add(h[b].left, h[b].width)) /\
                Le(h[b].left, Add(h[a].left, h[a].width)) /\
                Le(h[a].top, Add(h[b].top, h[b].height)) /\
                Le(h[b].top, Add(h[a].top, h[a].height)))]

\* Variants of Rect.difference that a slip in the source would produce:
\* zeroCheck: the degenerate (zero width or height) intersection is tested;
\* shrink: the left and right bands use the shrunk vertical extent;
\* bottom: the bottom band is emitted; reversed: the result order is reversed.
Reverse(s) == [i \in 1..Len(s) |-> s[Len(s) + 1 - i]]

DifferenceVariant(h, a, b, zeroCheck, shrink, bottom, reversed) ==
  LET intersection == Rect_intersection(h, a, b).ret
  IN IF intersection.kind = "null" \/
        (zeroCheck /\ (intersection.obj.height = 0 \/ intersection.obj.width = 0))
     THEN [heap |-> h, ret |-> Arr(<<New(Rect_prototype_clone(h[a]))>>)]
     ELSE
       LET A == h[a]
           B == h[b]
           ar == A.left + A.width
           ab == A.top + A.height
           br == B.left + B.width
           bb == B.top + B.height
           result1 == IF B.top > A.top
                      THEN <<New(Rect(A.left, A.top, A.width, B.top - A.top))>>
                      ELSE <<>>
           top1 == IF B.top > A.top /\ shrink THEN B.top ELSE A.top
           height1 == IF B.top > A.top /\ shrink
                      THEN A.height - (B.top - A.top) ELSE A.height
           result2 == IF bb < ab /\ bottom
                      THEN Append(result1, New(Rect(A.left, bb, A.width, ab - bb)))
                      ELSE result1
           height2 == IF bb < ab /\ shrink THEN bb - top1 ELSE height1
           result3 == IF B.left > A.left
                      THEN Append(result2, New(Rect(A.left, top1, B.left - A.left, height2)))
                      ELSE result2
           result4 == IF br < ar
                      THEN Append(result3, New(Rect(br, top1, ar - br, height2)))
                      ELSE result3
       IN [heap |-> h, ret |-> Arr(IF reversed THEN Reverse(result4) ELSE result4)]

Rect_difference_noZeroCheck(h, a, b) == DifferenceVariant(h, a, b, FALSE, TRUE, TRUE, FALSE)
Rect_difference_reversed(h, a, b) == DifferenceVariant(h, a, b, TRUE, TRUE, TRUE, TRUE)

\* the height the left and right bands are given: what the top band and the
\* bottom band have left of it
Rect_difference_height(A, B, ab, bb, top) ==
  IF Lt(bb, ab) THEN Sub(bb, top)
  ELSE IF Gt(B.top, A.top) THEN Sub(A.height, Sub(B.top, A.top))
  ELSE A.height

\* the rectangles pushed, in order: the top band, the bottom band, the left
\* band and the right band; ar, ab, br and bb are the right and bottom edges
\* of A and B, top and height the vertical extent the first two have left
Rect_difference_result(A, B, ar, ab, br, bb, top, height) ==
  (IF Gt(B.top, A.top)
   THEN <<New(Rect(A.left, A.top, A.width, Sub(B.top, A.top)))>> ELSE <<>>)
  \o (IF Lt(bb, ab)
      THEN <<New(Rect(A.left, bb, A.width, Sub(ab, bb)))>> ELSE <<>>)
  \o (IF Gt(B.left, A.left)
      THEN <<New(Rect(A.left, top, Sub(B.left, A.left), height))>> ELSE <<>>)
  \o (IF Lt(br, ar)
      THEN <<New(Rect(br, top, Sub(ar, br), height))>> ELSE <<>>)

\* the same with the edges and the top worked out once
Rect_difference_bands(A, B, ab, bb, top) ==
  Rect_difference_result(A, B, Add(A.left, A.width), ab, Add(B.left, B.width), bb,
                         top, Rect_difference_height(A, B, ab, bb, top))

Rect_difference(h, a, b) ==
  LET intersection == Rect_intersection(h, a, b).ret
  IN IF intersection.kind = "null" \/ Not(intersection.obj.height)
        \/ Not(intersection.obj.width)
     THEN [heap |-> h, ret |-> Arr(<<New(Rect_prototype_clone(h[a]))>>)]
     ELSE [heap |-> h,
           ret |-> Arr(Rect_difference_bands(
                         h[a], h[b], Add(h[a].top, h[a].height),
                         Add(h[b].top, h[b].height),
                         IF Gt(h[b].top, h[a].top) THEN h[b].top ELSE h[a].top))]

Rect_prototype_boundingRect(h, t, rect) ==
  LET right == Math_max(Add(h[t].left, h[t].width), Add(h[rect].left, h[rect].width))
      bottom == Math_max(Add(h[t].top, h[t].height), Add(h[rect].top, h[rect].height))
      h1 == [h EXCEPT ![t].left = Math_min(h[t].left, h[rect].left)]
      h2 == [h1 EXCEPT ![t].top = Math_min(h1[t].top, h1[rect].top)]
      h3 == [h2 EXCEPT ![t].width = Sub(right, h2[t].left)]
      h4 == [h3 EXCEPT ![t].height = Sub(bottom, h3[t].top)]
  IN [heap |-> h4, ret |-> Undefined]

\* a and b are references: an object name or NullRef
Rect_boundingRect(h, a, b) ==
  IF a = NullRef \/ b = NullRef
  THEN [heap |-> h, ret |-> Null]
  ELSE LET hc == ("clone" :> Rect_prototype_clone(h[a])) @@ h
           after == Rect_prototype_boundingRect(hc, "clone", b).heap
       IN [heap |-> [id \in DOMAIN h |-> after[id]], ret |-> New(after["clone"])]

Rect_prototype_contains_exclusive(r, another) ==
  IF another.cls = "Rect"
  THEN r.left <= another.left /\
       r.left + r.width > another.left + another.width /\
       r.top <= another.top /\
       r.top + r.height > another.top + another.height
  ELSE another.x >= r.left /\
       another.x < r.left + r.width /\
       another.y >= r.top /\
       another.y < r.top + r.height

Rect_prototype_contains(r, another) ==
  IF another.cls = "Rect"
  THEN Le(r.left, another.left) /\
       Ge(Add(r.left, r.width), Add(another.left, another.width)) /\
       Le(r.top, another.top) /\
       Ge(Add(r.top, r.height), Add(another.top, another.height))
  ELSE Ge(another.x, r.left) /\
       Le(another.x, Add(r.left, r.width)) /\
       Ge(another.y, r.top) /\
       Le(another.y, Add(r.top, r.height))

Rect_prototype_area(r) == Mul(r.width, r.height)

----------------------------------------------------------------------------
(* Numbers *)

\* Math.ceil, Math.floor and Math.round leave an integer as it is, and the
\* fields they are applied to in this model hold integers.
Math_ceil(x) == x
Math_floor(x) == x
Math_round(x) == x

\* XMath.isNumber of the math module: whether the (optional) argument is a number
XMath_isNumber(v) == v.kind = "num"

\* tx instanceof Coordinate
InstanceOfCoordinate(h, v) == v.kind = "ref" /\ h[v.id].cls = "Coordinate"

----------------------------------------------------------------------------
(* Rect: the in-place arithmetic *)

Rect_prototype_ceil(h, t) ==
  LET h1 == [h EXCEPT ![t].left = Math_ceil(h[t].left)]
      h2 == [h1 EXCEPT ![t].top = Math_ceil(h1[t].top)]
      h3 == [h2 EXCEPT ![t].width = Math_ceil(h2[t].width)]
      h4 == [h3 EXCEPT ![t].height = Math_ceil(h3[t].height)]
  IN [heap |-> h4, ret |-> Ref(t)]

Rect_prototype_floor(h, t) ==
  LET h1 == [h EXCEPT ![t].left = Math_floor(h[t].left)]
      h2 == [h1 EXCEPT ![t].top = Math_floor(h1[t].top)]
      h3 == [h2 EXCEPT ![t].width = Math_floor(h2[t].width)]
      h4 == [h3 EXCEPT ![t].height = Math_floor(h3[t].height)]
  IN [heap |-> h4, ret |-> Ref(t)]

Rect_prototype_round(h, t) ==
  LET h1 == [h EXCEPT ![t].left = Math_round(h[t].left)]
      h2 == [h1 EXCEPT ![t].top = Math_round(h1[t].top)]
      h3 == [h2 EXCEPT ![t].width = Math_round(h2[t].width)]
      h4 == [h3 EXCEPT ![t].height = Math_round(h3[t].height)]
  IN [heap |-> h4, ret |-> Ref(t)]

Rect_prototype_translate_noReturn(h, t, tx, opt_ty) ==
  IF InstanceOfCoordinate(h, tx)
  THEN [heap |-> [h EXCEPT ![t].left = h[t].left + h[tx.id].x,
                           ![t].top = h[t].top + h[tx.id].y],
        ret |-> Undefined]
  ELSE [heap |-> [h EXCEPT ![t].left = h[t].left + tx.val,
                           ![t].top = IF XMath_isNumber(opt_ty)
                                      THEN h[t].top + opt_ty.val ELSE h[t].top],
        ret |-> Undefined]

Rect_prototype_translate(h, t, tx, opt_ty) ==
  IF InstanceOfCoordinate(h, tx)
  THEN [heap |-> [h EXCEPT ![t].left = h[t].left + h[tx.id].x,
                           ![t].top = h[t].top + h[tx.id].y],
        ret |-> Ref(t)]
  ELSE [heap |-> [h EXCEPT ![t].left = h[t].left + tx.val,
                           ![t].top = IF XMath_isNumber(opt_ty)
                                      THEN h[t].top + opt_ty.val ELSE h[t].top],
        ret |-> Ref(t)]

Rect_prototype_scale(h, t, sx, opt_sy) ==
  LET sy == IF XMath_isNumber(opt_sy) THEN opt_sy.val ELSE sx.val
  IN [heap |-> [h EXCEPT ![t].left = h[t].left * sx.val,
                         ![t].width = h[t].width * sx.val,
                         ![t].top = h[t].top * sy,
                         ![t].height = h[t].height * sy],
      ret |-> Ref(t)]

----------------------------------------------------------------------------
(* Box *)

Box_prototype_ceil(h, t) ==
  LET h1 == [h EXCEPT ![t].top = Math_ceil(h[t].top)]
      h2 == [h1 EXCEPT ![t].right = Math_ceil(h1[t].right)]
      h3 == [h2 EXCEPT ![t].bottom = Math_ceil(h2[t].bottom)]
      h4 == [h3 EXCEPT ![t].left = Math_ceil(h3[t].left)]
  IN [heap |-> h4, ret |-> Ref(t)]

Box_prototype_floor(h, t) ==
  LET h1 == [h EXCEPT ![t].top = Math_floor(h[t].top)]
      h2 == [h1 EXCEPT ![t].right = Math_floor(h1[t].right)]
      h3 == [h2 EXCEPT ![t].bottom = Math_floor(h2[t].bottom)]
      h4 == [h3 EXCEPT ![t].left = Math_floor(h3[t].left)]
  IN [heap |-> h4, ret |-> Ref(t)]

Box_prototype_round(h, t) ==
  LET h1 == [h EXCEPT ![t].top = Math_round(h[t].top)]
      h2 == [h1 EXCEPT ![t].right = Math_round(h1[t].right)]
      h3 == [h2 EXCEPT ![t].bottom = Math_round(h2[t].bottom)]
      h4 == [h3 EXCEPT ![t].left = Math_round(h3[t].left)]
  IN [heap |-> h4, ret |-> Ref(t)]

\* The file of Box never binds the names XMath and Size it uses, and
\* Object.isObject is no function of the language: evaluating them fails.
Box_XMath == Throw("ReferenceError")
Object_isObject == Throw("TypeError")

Box_prototype_expand(h, t, top, opt_right, opt_bottom, opt_left) ==
  \* line 162 calls Object.isObject before any field is touched
  [heap |-> h, ret |-> Object_isObject]

Box_prototype_translate(h, t, tx, opt_ty) ==
  IF InstanceOfCoordinate(h, tx)
  THEN [heap |-> [h EXCEPT ![t].left = h[t].left + h[tx.id].x,
                           ![t].right = h[t].right + h[tx.id].x,
                           ![t].top = h[t].top + h[tx.id].y,
                           ![t].bottom = h[t].bottom + h[tx.id].y],
        ret |-> Ref(t)]
  ELSE \* left and right are moved, then line 397 evaluates XMath
       [heap |-> [h EXCEPT ![t].left = h[t].left + tx.val,
                           ![t].right = h[t].right + tx.val],
        ret |-> Box_XMath]

Box_prototype_scale(h, t, sx, opt_sy) ==
  \* line 416 evaluates XMath before any field is touched
  [heap |-> h, ret |-> Box_XMath]

----------------------------------------------------------------------------
(* Size *)

Size(width, height) == [cls |-> "Size", width |-> width, height |-> height]

Size_prototype_ceil(h, t) ==
  LET h1 == [h EXCEPT ![t].width = Math_ceil(h[t].width)]
      h2 == [h1 EXCEPT ![t].height = Math_ceil(h1[t].height)]
  IN [heap |-> h2, ret |-> Ref(t)]

Size_prototype_floor(h, t) ==
  LET h1 == [h EXCEPT ![t].width = Math_floor(h[t].width)]
      h2 == [h1 EXCEPT ![t].height = Math_floor(h1[t].height)]
  IN [heap |-> h2, ret |-> Ref(t)]

Size_prototype_round(h, t) ==
  LET h1 == [h EXCEPT ![t].width = Math_round(h[t].width)]
      h2 == [h1 EXCEPT ![t].height = Math_round(h1[t].height)]
  IN [heap |-> h2, ret |-> Ref(t)]

Size_prototype_scale(h, t, sx, opt_sy) ==
  LET sy == IF XMath_isNumber(opt_sy) THEN opt_sy.val ELSE sx.val
  IN [heap |-> [h EXCEPT ![t].width = h[t].width * sx.val,
                         ![t].height = h[t].height * sy],
      ret |-> Ref(t)]

----------------------------------------------------------------------------
(* Size: fitting one size into another.  The factor of scaleToFit is a     *)
(* quotient, which a double holds rounded, so here a number is a double:   *)
(* a significand of P binary digits and an exponent, and / and * round to  *)
(* nearest, ties to even, as the language's numbers do.                    *)


Size_prototype_aspectRatio(size) == Quotient(size.width, size.height)

Size_prototype_fitsInside(size, target) ==
  AtMost(size.width, target.width) /\ AtMost(size.height, target.height)

\* Size.prototype.scale called with the one factor sx: opt_sy is undefined,
\* so sy is sx
Size_prototype_scale_by(h, t, sx) ==
  LET sy == sx
  IN [heap |-> [h EXCEPT ![t].width = Product(h[t].width, sx),
                         ![t].height = Product(h[t].height, sy)],
      ret |-> Ref(t)]

Size_prototype_scaleToFit(h, t, target) ==
  LET s == IF Less(Size_prototype_aspectRatio(h[target]),
                   Size_prototype_aspectRatio(h[t]))
           THEN Quotient(h[target].width, h[t].width)
           ELSE Quotient(h[target].height, h[t].height)
  IN Size_prototype_scale_by(h, t, s)

----------------------------------------------------------------------------
(* Coordinate *)

\* opt_x || 0: zero of either sign and NaN give 0
OrZero(x) ==
  IF IsInteger(x) THEN x
  ELSE IF x.kind \in {"zero", "nan"} THEN Zero(FALSE) ELSE x

Coordinate(opt_x, opt_y) ==
  [cls |-> "Coordinate", x |-> OrZero(opt_x), y |-> OrZero(opt_y)]

Coordinate_prototype_ceil(h, t) ==
  LET h1 == [h EXCEPT ![t].x = Math_ceil(h[t].x)]
      h2 == [h1 EXCEPT ![t].y = Math_ceil(h1[t].y)]
  IN [heap |-> h2, ret |-> Ref(t)]

Coordinate_prototype_floor(h, t) ==
  LET h1 == [h EXCEPT ![t].x = Math_floor(h[t].x)]
      h2 == [h1 EXCEPT ![t].y = Math_floor(h1[t].y)]
  IN [heap |-> h2, ret |-> Ref(t)]

Coordinate_prototype_round(h, t) ==
  LET h1 == [h EXCEPT ![t].x = Math_round(h[t].x)]
      h2 == [h1 EXCEPT ![t].y = Math_round(h1[t].y)]
  IN [heap |-> h2, ret |-> Ref(t)]

Coordinate_prototype_translate(h, t, tx, opt_ty) ==
  IF InstanceOfCoordinate(h, tx)
  THEN LET h1 == [h EXCEPT ![t].x = h[t].x + h[tx.id].x]
           h2 == [h1 EXCEPT ![t].y = h1[t].y + h1[tx.id].y]
       IN [heap |-> h2, ret |-> Ref(t)]
  ELSE [heap |-> [h EXCEPT ![t].x = h[t].x + tx.val,
                           ![t].y = IF XMath_isNumber(opt_ty)
                                    THEN h[t].y + opt_ty.val ELSE h[t].y],
        ret |-> Ref(t)]

Coordinate_prototype_scale(h, t, sx, opt_sy) ==
  LET sy == IF XMath_isNumber(opt_sy) THEN opt_sy.val ELSE sx.val
  IN [heap |-> [h EXCEPT ![t].x = h[t].x * sx.val,
                         ![t].y = h[t].y * sy],
      ret |-> Ref(t)]

Coordinate_prototype_clone(coord) == Coordinate(coord.x, coord.y)

Coordinate_difference(h, a, b) ==
  [heap |-> h, ret |-> New(Coordinate(h[a].x - h[b].x, h[a].y - h[b].y))]

Coordinate_sum(h, a, b) ==
  [heap |-> h, ret |-> New(Coordinate(h[a].x + h[b].x, h[a].y + h[b].y))]

Coordinate_prototype_add(h, t, b) ==
  LET h1 == [h EXCEPT ![t].x = h[t].x + h[b].x]
      h2 == [h1 EXCEPT ![t].y = h1[t].y + h1[b].y]
  IN [heap |-> h2, ret |-> Ref(t)]

Coordinate_prototype_subtract(h, t, b) ==
  LET h1 == [h EXCEPT ![t].x = h[t].x - h[b].x]
      h2 == [h1 EXCEPT ![t].y = h1[t].y - h1[b].y]
  IN [heap |-> h2, ret |-> Ref(t)]

\* on integer fields, whose 0 stands for both zeros of the source (there
\* 0 and -0 compare equal, and no integer operation tells them apart)
Coordinate_prototype_invert(h, t) ==
  LET h1 == [h EXCEPT ![t].x = 0 - h[t].x]
      h2 == [h1 EXCEPT ![t].y = 0 - h1[t].y]
  IN [heap |-> h2, ret |-> Ref(t)]

Coordinate_prototype_multiply(h, t, b) ==
  LET h1 == [h EXCEPT ![t].x = h[t].x * h[b].x]
      h2 == [h1 EXCEPT ![t].y = h1[t].y * h1[b].y]
  IN [heap |-> h2, ret |-> Ref(t)]

\* The methods that turn and normalise work on coordinates whose x and y
\* are doubles with a sign (Number(n) for an integer n).

\* subtract, add and scale (called with the one factor sx, so that
\* sy is sx) on such coordinates
Coordinate_prototype_subtract_doubles(h, t, b) ==
  LET h1 == [h EXCEPT ![t].x = Minus(h[t].x, h[b].x)]
      h2 == [h1 EXCEPT ![t].y = Minus(h1[t].y, h1[b].y)]
  IN [heap |-> h2, ret |-> Ref(t)]

Coordinate_prototype_add_doubles(h, t, b) ==
  LET h1 == [h EXCEPT ![t].x = Plus(h[t].x, h[b].x)]
      h2 == [h1 EXCEPT ![t].y = Plus(h1[t].y, h1[b].y)]
  IN [heap |-> h2, ret |-> Ref(t)]

Coordinate_prototype_scale_doubles(h, t, sx) ==
  LET sy == sx
      h1 == [h EXCEPT ![t].x = Times(h[t].x, sx)]
      h2 == [h1 EXCEPT ![t].y = Times(h1[t].y, sy)]
  IN [heap |-> h2, ret |-> Ref(t)]

Coordinate_prototype_magnitude(coord) ==
  SquareRoot(Plus(Times(coord.x, coord.x), Times(coord.y, coord.y)))

Coordinate_prototype_normalize(h, t) ==
  Coordinate_prototype_scale_doubles(h, t, Over(Number(1), Coordinate_prototype_magnitude(h[t])))

\* The angles of the model, in radians: the doubles 1 * Math.PI / 2,
\* 2 * Math.PI / 2 and 3 * Math.PI / 2 (and 0)
QuarterTurn == Parts(FALSE, 0, 52707178, 71576856)
HalfTurn == Parts(FALSE, 1, 52707178, 71576856)
ThreeQuarterTurn == Parts(FALSE, 2, 39530383, 120791506)

\* Math.cos and Math.sin at these angles: the doubles the library returns,
\* which at a quarter turn and at a half turn are close to 0, not 0
Math_cos(angle) ==
  CASE angle = Zero(FALSE) -> Number(1)
    [] angle = QuarterTurn -> Parts(FALSE, 0 - 54, 37012678, 51665927)
    [] angle = HalfTurn -> Number(0 - 1)
    [] angle = ThreeQuarterTurn -> Parts(TRUE, 0 - 53, 55519017, 77498890)

Math_sin(angle) ==
  CASE angle = Zero(FALSE) -> Zero(FALSE)
    [] angle = QuarterTurn -> Number(1)
    [] angle = HalfTurn -> Parts(FALSE, 0 - 53, 37012678, 51665927)
    [] angle = ThreeQuarterTurn -> Number(0 - 1)

Coordinate_prototype_rotate(h, t, angle) ==
  LET cos == Math_cos(angle)
      sin == Math_sin(angle)
      newX == Minus(Times(h[t].x, cos), Times(h[t].y, sin))
      newY == Plus(Times(h[t].y, cos), Times(h[t].x, sin))
  IN [heap |-> [h EXCEPT ![t].x = newX, ![t].y = newY], ret |-> Ref(t)]

\* rotation applied to v itself, without the clone
Coordinate_rotateAroundPoint_inPlace(h, v, axisPoint, angle) ==
  LET h1 == Coordinate_prototype_subtract_doubles(h, v, axisPoint).heap
      h2 == Coordinate_prototype_rotate(h1, v, angle).heap
      h3 == Coordinate_prototype_add_doubles(h2, v, axisPoint).heap
  IN [heap |-> h3, ret |-> New(h3[v])]

\* res is the clone of v, a new object beside those of h
Coordinate_rotateAroundPoint(h, v, axisPoint, angle) ==
  LET h0 == ("res" :> Coordinate_prototype_clone(h[v])) @@ h
      h1 == Coordinate_prototype_subtract_doubles(h0, "res", axisPoint).heap
      h2 == Coordinate_prototype_rotate(h1, "res", angle).heap
      h3 == Coordinate_prototype_add_doubles(h2, "res", axisPoint).heap
  IN [heap |-> [id \in DOMAIN h |-> h3[id]], ret |-> New(h3["res"])]

Coordinate_prototype_min(h, t, b) ==
  LET h1 == [h EXCEPT ![t].x = Min(h[t].x, h[b].x)]
      h2 == [h1 EXCEPT ![t].y = Min(h1[t].y, h1[b].y)]
  IN [heap |-> h2, ret |-> Ref(t)]

Coordinate_prototype_max(h, t, b) ==
  LET h1 == [h EXCEPT ![t].x = Max(h[t].x, h[b].x)]
      h2 == [h1 EXCEPT ![t].y = Max(h1[t].y, h1[b].y)]
  IN [heap |-> h2, ret |-> Ref(t)]

\* min and max here are the two coordinates passed
Coordinate_prototype_clamp(h, t, min, max) ==
  LET h1 == [h EXCEPT ![t].x = Min(Max(h[t].x, h[min].x), h[max].x)]
      h2 == [h1 EXCEPT ![t].y = Min(Max(h1[t].y, h1[min].y), h1[max].y)]
  IN [heap |-> h2, ret |-> Ref(t)]

Coordinate_max(h, a, b) ==
  [heap |-> h, ret |-> New(Coordinate(Max(h[a].x, h[b].x), Max(h[a].y, h[b].y)))]

Coordinate_min(h, a, b) ==
  [heap |-> h, ret |-> New(Coordinate(Min(h[a].x, h[b].x), Min(h[a].y, h[b].y)))]

Coordinate_clamp(h, a, min, max) ==
  [heap |-> h,
   ret |-> New(Coordinate(Min(Max(h[a].x, h[min].x), h[max].x),
                          Min(Max(h[a].y, h[min].y), h[max].y)))]

----------------------------------------------------------------------------
(* Box: the factories and queries *)

\* The box after the first i of the coordinates args have been folded in
RECURSIVE BoundingFold(_, _, _)
BoundingFold(h, args, i) ==
  IF i = 1
  THEN Box(h[args[1]].y, h[args[1]].x, h[args[1]].y, h[args[1]].x)
  ELSE LET box == BoundingFold(h, args, i - 1)
           coord == h[args[i]]
       IN Box(Min(box.top, coord.y), Max(box.right, coord.x),
              Max(box.bottom, coord.y), Min(box.left, coord.x))

\* The fold seeded with the first coordinate but never widened to the right
RECURSIVE BoundingFoldNoRight(_, _, _)
BoundingFoldNoRight(h, args, i) ==
  IF i = 1
  THEN Box(h[args[1]].y, h[args[1]].x, h[args[1]].y, h[args[1]].x)
  ELSE LET box == BoundingFoldNoRight(h, args, i - 1)
           coord == h[args[i]]
       IN Box(Min(box.top, coord.y), box.right,
              Max(box.bottom, coord.y), Min(box.left, coord.x))

Box_boundingBox_noRight(h, args) ==
  IF Len(args) = 0
  THEN [heap |-> h, ret |-> Throw("TypeError")]
  ELSE [heap |-> h, ret |-> New(BoundingFoldNoRight(h, args, Len(args)))]

\* args: the names of the coordinates passed; arguments[0].y of no argument
\* is a property of undefined, a TypeError
Box_boundingBox(h, args) ==
  IF Len(args) = 0
  THEN [heap |-> h, ret |-> Throw("TypeError")]
  ELSE [heap |-> h, ret |-> New(BoundingFold(h, args, Len(args)))]

Box_contains_strict(h, box, other) ==
  IF box = NullRef \/ other = NullRef
  THEN FALSE
  ELSE IF h[other].cls = "Box"
       THEN h[other].left > h[box].left /\ h[other].right < h[box].right /\
            h[other].top > h[box].top /\ h[other].bottom < h[box].bottom
       ELSE h[other].x > h[box].left /\ h[other].x < h[box].right /\
            h[other].y > h[box].top /\ h[other].y < h[box].bottom

\* box and other are references: an object name or NullRef
Box_contains(h, box, other) ==
  IF box = NullRef \/ other = NullRef
  THEN FALSE
  ELSE IF h[other].cls = "Box"
       THEN Ge(h[other].left, h[box].left) /\ Le(h[other].right, h[box].right) /\
            Ge(h[other].top, h[box].top) /\ Le(h[other].bottom, h[box].bottom)
       ELSE Ge(h[other].x, h[box].left) /\ Le(h[other].x, h[box].right) /\
            Ge(h[other].y, h[box].top) /\ Le(h[other].y, h[box].bottom)

Box_prototype_contains(h, t, other) == Box_contains(h, t, other)

Box_relativePositionX_fromRight(box, coord) ==
  IF Lt(coord.x, box.left) THEN Sub(coord.x, box.right)
  ELSE IF Gt(coord.x, box.right) THEN Sub(coord.x, box.right)
  ELSE 0

\* box and coord are the objects; the result is the number returned
Box_relativePositionX(box, coord) ==
  IF Lt(coord.x, box.left) THEN Sub(coord.x, box.left)
  ELSE IF Gt(coord.x, box.right) THEN Sub(coord.x, box.right)
  ELSE 0

Box_relativePositionY(box, coord) ==
  IF Lt(coord.y, box.top) THEN Sub(coord.y, box.top)
  ELSE IF Gt(coord.y, box.bottom) THEN Sub(coord.y, box.bottom)
  ELSE 0

Box_distance(box, coord) ==
  LET x == Box_relativePositionX(box, coord)
      y == Box_relativePositionY(box, coord)
  IN Math_sqrt(Add(Mul(x, x), Mul(y, y)))

Box_prototype_expandToInclude(h, t, box) ==
  LET h1 == [h EXCEPT ![t].left = Min(h[t].left, h[box].left)]
      h2 == [h1 EXCEPT ![t].top = Min(h1[t].top, h1[box].top)]
      h3 == [h2 EXCEPT ![t].right = Max(h2[t].right, h2[box].right)]
      h4 == [h3 EXCEPT ![t].bottom = Max(h3[t].bottom, h3[box].bottom)]
  IN [heap |-> h4, ret |-> Undefined]

Box_intersectsWithPadding(a, b, padding) ==
  a.left <= b.right + padding /\ b.left <= a.right + padding /\
  a.top <= b.bottom + padding /\ b.top <= a.bottom + padding

Box_intersects_strict(a, b) ==
  a.left < b.right /\ b.left < a.right /\
  a.top < b.bottom /\ b.top < a.bottom

Box_intersects(a, b) ==
  a.left <= b.right /\ b.left <= a.right /\
  a.top <= b.bottom /\ b.top <= a.bottom

----------------------------------------------------------------------------
(* The caller: a program holding two rectangles, a and b *)

RectIds == {"a", "b"}

InitRects == {Rect(x, y, w, h) : x \in Pos, y \in Pos, w \in Ext, h \in Ext}

Init ==
  /\ heap \in [RectIds -> InitRects]
  /\ heap0 = heap
  /\ op = "new"
  /\ this = "none"
  /\ argv = <<>>
  /\ ret = Undefined

Call(name, t, args, result) ==
  /\ heap0' = heap
  /\ op' = name
  /\ this' = t
  /\ argv' = args
  /\ heap' = result.heap
  /\ ret' = result.ret

CallIntersection ==
  \E t \in RectIds, r \in RectIds :
    Call("Rect.prototype.intersection", t, <<r>>, Rect_prototype_intersection(heap, t, r))

CallStaticIntersection ==
  \E x \in RectIds, y \in RectIds :
    Call("Rect.intersection", "none", <<x, y>>, Rect_intersection(heap, x, y))

CallStaticIntersects ==
  \E x \in RectIds, y \in RectIds :
    Call("Rect.intersects", "none", <<x, y>>, Rect_intersects(heap, x, y))

CallStaticDifference ==
  \E x \in RectIds, y \in RectIds :
    Call("Rect.difference", "none", <<x, y>>, Rect_difference(heap, x, y))

CallBoundingRect ==
  \E t \in RectIds, r \in RectIds :
    Call("Rect.prototype.boundingRect", t, <<r>>, Rect_prototype_boundingRect(heap, t, r))

CallStaticBoundingRect ==
  \E x \in RectIds \cup {NullRef}, y \in RectIds \cup {NullRef} :
    Call("Rect.boundingRect", "none", <<x, y>>, Rect_boundingRect(heap, x, y))

CallToBox ==
  \E t \in RectIds :
    Call("Rect.prototype.toBox", t, <<>>, Rect_prototype_toBox(heap, t))

Next ==
  \/ CallIntersection
  \/ CallStaticIntersection
  \/ CallStaticIntersects
  \/ CallStaticDifference
  \/ CallBoundingRect
  \/ CallStaticBoundingRect
  \/ CallToBox

Spec == Init /\ [][Next]_vars

----------------------------------------------------------------------------
(* A second caller: one object a of any of the four classes, mutated in     *)
(* place again and again; b is an object of the same class and v a          *)
(* Coordinate, both passed as arguments.  Or else it holds a vector a and   *)
(* a point v, without a b, their fields doubles, to turn and normalise.     *)

MaxAbs == 3   \* a call is taken only if it leaves the fields of a within -MaxAbs..MaxAbs

NumArgs == {Num(0 - 1), Num(2)}
OptArgs == NumArgs \cup {Undefined}

MutInitHeaps ==
  LET vs == {Coordinate(1, 0 - 1)}
  IN UNION {
       {[a |-> Rect(x, y, 1, 1), b |-> r, v |-> c] :
          x \in Pos, y \in Pos, c \in vs,
          r \in {Rect(1, 0, 1, 2), Rect(2, 2, 1, 0), Rect(1, 1, 0 - 1, 1)}},
       {[a |-> Box(y, x + 1, y + 1, x), b |-> Box(1, 1, 0, 1), v |-> c] : x \in Pos, y \in Pos, c \in vs},
       {[a |-> Size(w, hh), b |-> Size(1, 1), v |-> c] : w \in Pos, hh \in Pos, c \in vs},
       {[a |-> Coordinate(x, y), b |-> Coordinate(0, 1), v |-> c] : x \in Pos, y \in Pos, c \in vs} }

MaxTurn == 2   \* the vector a starts with x in -MaxTurn..MaxTurn and y in 0..MaxTurn

MutInit ==
  /\ \/ heap \in MutInitHeaps
     \/ \E x \in (0 - MaxTurn)..MaxTurn, y \in 0..MaxTurn :
          heap = [a |-> Coordinate(Number(x), Number(y)),
                  v |-> Coordinate(Number(1), Number(0 - 1))]
  /\ heap0 = heap
  /\ op = "new"
  /\ this = "none"
  /\ argv = <<>>
  /\ ret = Undefined

InRange(o) == \A f \in DOMAIN o \ {"cls"} : o[f] \in (0 - MaxAbs)..MaxAbs

\* a call on receiver a, taken while the fields stay within the range of the model
Mutate(cls, name, args, result) ==
  /\ "b" \in DOMAIN heap
  /\ heap["a"].cls = cls
  /\ InRange(result.heap["a"])
  /\ Call(name, "a", args, result)

TranslateArgs == {<<Ref("v"), Undefined>>} \cup {<<x, y>> : x \in NumArgs, y \in OptArgs}
ScaleArgs == {<<x, y>> : x \in NumArgs, y \in OptArgs}
ExpandArgs == {<<Ref("b"), Undefined, Undefined, Undefined>>}
                \cup {<<x, x, y, y>> : x \in NumArgs, y \in NumArgs}

CallRectCeil == Mutate("Rect", "Rect.prototype.ceil", <<>>, Rect_prototype_ceil(heap, "a"))
CallRectFloor == Mutate("Rect", "Rect.prototype.floor", <<>>, Rect_prototype_floor(heap, "a"))
CallRectRound == Mutate("Rect", "Rect.prototype.round", <<>>, Rect_prototype_round(heap, "a"))
CallRectTranslate ==
  \E args \in TranslateArgs :
    Mutate("Rect", "Rect.prototype.translate", args,
           Rect_prototype_translate(heap, "a", args[1], args[2]))
CallRectScale ==
  \E args \in ScaleArgs :
    Mutate("Rect", "Rect.prototype.scale", args,
           Rect_prototype_scale(heap, "a", args[1], args[2]))

CallRectIntersection ==
  \E rect \in {"a", "b"} :
    Mutate("Rect", "Rect.prototype.intersection", <<rect>>,
           Rect_prototype_intersection(heap, "a", rect))
CallRectBoundingRect ==
  \E rect \in {"a", "b"} :
    Mutate("Rect", "Rect.prototype.boundingRect", <<rect>>,
           Rect_prototype_boundingRect(heap, "a", rect))

CallBoxCeil == Mutate("Box", "Box.prototype.ceil", <<>>, Box_prototype_ceil(heap, "a"))
CallBoxFloor == Mutate("Box", "Box.prototype.floor", <<>>, Box_prototype_floor(heap, "a"))
CallBoxRound == Mutate("Box", "Box.prototype.round", <<>>, Box_prototype_round(heap, "a"))
CallBoxTranslate ==
  \E args \in TranslateArgs :
    Mutate("Box", "Box.prototype.translate", args,
           Box_prototype_translate(heap, "a", args[1], args[2]))
CallBoxScale ==
  \E args \in ScaleArgs :
    Mutate("Box", "Box.prototype.scale", args,
           Box_prototype_scale(heap, "a", args[1], args[2]))
CallBoxExpand ==
  \E args \in ExpandArgs :
    Mutate("Box", "Box.prototype.expand", args,
           Box_prototype_expand(heap, "a", args[1], args[2], args[3], args[4]))

CallSizeCeil == Mutate("Size", "Size.prototype.ceil", <<>>, Size_prototype_ceil(heap, "a"))
CallSizeFloor == Mutate("Size", "Size.prototype.floor", <<>>, Size_prototype_floor(heap, "a"))
CallSizeRound == Mutate("Size", "Size.prototype.round", <<>>, Size_prototype_round(heap, "a"))
CallSizeScale ==
  \E args \in ScaleArgs :
    Mutate("Size", "Size.prototype.scale", args,
           Size_prototype_scale(heap, "a", args[1], args[2]))

CallCoordinateCeil ==
  Mutate("Coordinate", "Coordinate.prototype.ceil", <<>>, Coordinate_prototype_ceil(heap, "a"))
CallCoordinateFloor ==
  Mutate("Coordinate", "Coordinate.prototype.floor", <<>>, Coordinate_prototype_floor(heap, "a"))
CallCoordinateRound ==
  Mutate("Coordinate", "Coordinate.prototype.round", <<>>, Coordinate_prototype_round(heap, "a"))
CallCoordinateTranslate ==
  \E args \in TranslateArgs :
    Mutate("Coordinate", "Coordinate.prototype.translate", args,
           Coordinate_prototype_translate(heap, "a", args[1], args[2]))
CallCoordinateScale ==
  \E args \in ScaleArgs :
    Mutate("Coordinate", "Coordinate.prototype.scale", args,
           Coordinate_prototype_scale(heap, "a", args[1], args[2]))


----------------------------------------------------------------------------
(* A third caller: three objects a, b and v of one family (two boxes and   *)
(* a coordinate, two rectangles and a coordinate, or three coordinates),    *)
(* passed to the factories and queries                                      *)

MaxBox == 2
MaxPad == 2

Coords == {Coordinate(x, y) : x \in (0 - 1)..MaxPos, y \in (0 - 1)..MaxPos}

\* boxes of every shape, the inverted ones (right < left, bottom < top) too
Boxes == {Box(t, r, b, l) : t \in 0..MaxBox, r \in 0..MaxBox,
                            b \in 0..MaxBox, l \in 0..MaxBox}
SmallBoxes == {Box(t, r, b, l) : t \in Pos, r \in Pos, b \in Pos, l \in Pos}
SmallRects == {Rect(x, y, w, hh) : x \in Pos, y \in Pos, w \in 0..1, hh \in 0..1}
FarCoords == {Coordinate(x, y) : x \in (0 - 1)..(MaxBox + 1), y \in (0 - 1)..(MaxBox + 1)}

CoordinateFamily ==
  \E c1 \in Coords, c2 \in Coords, c3 \in Coords :
    heap = [a |-> c1, b |-> c2, v |-> c3]

\* a varies against b with v fixed, and against v with b fixed
BoxFamily ==
  \/ \E b1 \in Boxes, b2 \in SmallBoxes :
       heap = [a |-> b1, b |-> b2, v |-> Coordinate(0, 0)]
  \/ \E b1 \in Boxes, c \in FarCoords :
       heap = [a |-> b1, b |-> Box(0, 1, 1, 0), v |-> c]

RectFamily ==
  \/ \E r1 \in InitRects, r2 \in SmallRects :
       heap = [a |-> r1, b |-> r2, v |-> Coordinate(0, 0)]
  \/ \E r1 \in InitRects, c \in FarCoords :
       heap = [a |-> r1, b |-> Rect(0, 0, 1, 1), v |-> c]

GeoInit ==
  /\ CoordinateFamily \/ BoxFamily \/ RectFamily
  /\ heap0 = heap
  /\ op = "new"
  /\ this = "none"
  /\ argv = <<>>
  /\ ret = Undefined

GeoIds == {"a", "b", "v"}

\* the argument lists of up to three of the objects
ArgLists == {<<>>} \cup {<<x>> : x \in GeoIds} \cup (GeoIds \X GeoIds)
              \cup (GeoIds \X GeoIds \X GeoIds)

\* a call of a static operation, on a heap of the family it is made for
Static(cls, name, args, result) ==
  /\ "b" \in DOMAIN heap
  /\ heap["a"].cls = cls
  /\ Call(name, "none", args, result)

CallBoundingBox ==
  \E args \in ArgLists :
    Static("Coordinate", "Box.boundingBox", args, Box_boundingBox(heap, args))

CallBoxContains ==
  \E box \in {"a", NullRef}, other \in {"a", "b", "v", NullRef} :
    Static("Box", "Box.contains", <<box, other>>,
           [heap |-> heap, ret |-> Bool(Box_contains(heap, box, other))])

CallRelativePositionX ==
  Static("Box", "Box.relativePositionX", <<"a", "v">>,
         [heap |-> heap, ret |-> Num(Box_relativePositionX(heap["a"], heap["v"]))])

CallRelativePositionY ==
  Static("Box", "Box.relativePositionY", <<"a", "v">>,
         [heap |-> heap, ret |-> Num(Box_relativePositionY(heap["a"], heap["v"]))])

CallDistance ==
  Static("Box", "Box.distance", <<"a", "v">>,
         [heap |-> heap, ret |-> Num(Box_distance(heap["a"], heap["v"]))])

OnRects(call) == heap["a"].cls = "Rect" /\ call

Paddings == (0 - 1)..MaxPad

CallBoxIntersects ==
  \E x \in {"a", "b"}, y \in {"a", "b"} :
    Static("Box", "Box.intersects", <<x, y>>,
           [heap |-> heap, ret |-> Bool(Box_intersects(heap[x], heap[y]))])

CallIntersectsWithPadding ==
  \E padding \in Paddings :
    Static("Box", "Box.intersectsWithPadding", <<"a", "b", Num(padding)>>,
           [heap |-> heap,
            ret |-> Bool(Box_intersectsWithPadding(heap["a"], heap["b"], padding))])

\* a call of a method that reads the receiver a
Query(cls, name, args, result) ==
  /\ heap["a"].cls = cls
  /\ Call(name, "a", args, [heap |-> heap, ret |-> result])

CallRectContains ==
  \E another \in GeoIds :
    Query("Rect", "Rect.prototype.contains", <<another>>,
          Bool(Rect_prototype_contains(heap["a"], heap[another])))

GeoNext ==
  \/ CallBoundingBox
  \/ CallRectContains
  \/ OnRects(CallStaticIntersects)
  \/ CallBoxIntersects
  \/ CallIntersectsWithPadding
  \/ CallBoxContains
  \/ CallRelativePositionX
  \/ CallRelativePositionY
  \/ CallDistance

SpecGeo == GeoInit /\ [][GeoNext]_vars

----------------------------------------------------------------------------
(* The second caller also calls the factories and queries on its objects,  *)
(* and the in-place methods that take one of them as argument.             *)

Angles == {Zero(FALSE), QuarterTurn, HalfTurn, ThreeQuarterTurn}

CallCreateFromBox ==
  \E box \in {"a", "b"} :
    Static("Box", "Rect.createFromBox", <<box>>,
           [heap |-> heap, ret |-> Rect_createFromBox(heap[box])])

CallBoxExpandToInclude ==
  \E box \in {"a", "b"} :
    Mutate("Box", "Box.prototype.expandToInclude", <<box>>,
           Box_prototype_expandToInclude(heap, "a", box))

CallCoordinateAdd ==
  \E b \in GeoIds :
    Mutate("Coordinate", "Coordinate.prototype.add", <<b>>,
           Coordinate_prototype_add(heap, "a", b))
CallCoordinateSubtract ==
  \E b \in GeoIds :
    Mutate("Coordinate", "Coordinate.prototype.subtract", <<b>>,
           Coordinate_prototype_subtract(heap, "a", b))
CallCoordinateMin ==
  \E b \in GeoIds :
    Mutate("Coordinate", "Coordinate.prototype.min", <<b>>,
           Coordinate_prototype_min(heap, "a", b))
CallCoordinateMax ==
  \E b \in GeoIds :
    Mutate("Coordinate", "Coordinate.prototype.max", <<b>>,
           Coordinate_prototype_max(heap, "a", b))
CallCoordinateClamp ==
  \E min \in GeoIds, max \in GeoIds :
    Mutate("Coordinate", "Coordinate.prototype.clamp", <<min, max>>,
           Coordinate_prototype_clamp(heap, "a", min, max))

CallStaticSum ==
  \E x \in GeoIds, y \in GeoIds :
    Static("Coordinate", "Coordinate.sum", <<x, y>>, Coordinate_sum(heap, x, y))
CallStaticCoordinateDifference ==
  \E x \in GeoIds, y \in GeoIds :
    Static("Coordinate", "Coordinate.difference", <<x, y>>,
           Coordinate_difference(heap, x, y))
CallStaticMin ==
  \E x \in GeoIds, y \in GeoIds :
    Static("Coordinate", "Coordinate.min", <<x, y>>, Coordinate_min(heap, x, y))
CallStaticMax ==
  \E x \in GeoIds, y \in GeoIds :
    Static("Coordinate", "Coordinate.max", <<x, y>>, Coordinate_max(heap, x, y))
CallStaticClamp ==
  \E x \in GeoIds, min \in GeoIds, max \in GeoIds :
    Static("Coordinate", "Coordinate.clamp", <<x, min, max>>,
           Coordinate_clamp(heap, x, min, max))
CallCoordinateInvert ==
  Mutate("Coordinate", "Coordinate.prototype.invert", <<>>,
         Coordinate_prototype_invert(heap, "a"))
CallCoordinateMultiply ==
  \E b \in GeoIds :
    Mutate("Coordinate", "Coordinate.prototype.multiply", <<b>>,
           Coordinate_prototype_multiply(heap, "a", b))

\* a call on the vector a and the point v, taken while both hold integers:
\* the products of Times are worked out for those
HoldsIntegers(coord) == IsWhole(coord.x) /\ IsWhole(coord.y)

OnVectors(call) ==
  /\ "b" \notin DOMAIN heap
  /\ HoldsIntegers(heap["a"]) /\ HoldsIntegers(heap["v"])
  /\ call

CallCoordinateRotate ==
  \E angle \in Angles :
    OnVectors(Call("Coordinate.prototype.rotate", "a", <<Num(angle)>>,
                   Coordinate_prototype_rotate(heap, "a", angle)))
CallCoordinateNormalize ==
  OnVectors(Call("Coordinate.prototype.normalize", "a", <<>>,
                 Coordinate_prototype_normalize(heap, "a")))
CallRotateAroundPoint ==
  \E v \in {"a", "v"}, axisPoint \in {"a", "v"}, angle \in Angles :
    OnVectors(Call("Coordinate.rotateAroundPoint", "none", <<v, axisPoint, Num(angle)>>,
                   Coordinate_rotateAroundPoint(heap, v, axisPoint, angle)))

MutNext ==
  \/ CallRectCeil
  \/ CallRectFloor
  \/ CallRectRound
  \/ CallRectTranslate
  \/ CallRectScale
  \/ CallRectIntersection
  \/ CallRectBoundingRect
  \/ CallBoxCeil
  \/ CallBoxFloor
  \/ CallBoxRound
  \/ CallBoxTranslate
  \/ CallBoxScale
  \/ CallBoxExpand
  \/ CallSizeCeil
  \/ CallSizeFloor
  \/ CallSizeRound
  \/ CallSizeScale
  \/ CallCoordinateCeil
  \/ CallCoordinateFloor
  \/ CallCoordinateRound
  \/ CallCoordinateTranslate
  \/ CallCoordinateScale
  \/ OnRects(CallStaticIntersection)
  \/ OnRects(CallStaticIntersects)
  \/ OnRects(CallStaticDifference)
  \/ OnRects(CallStaticBoundingRect)
  \/ CallCreateFromBox
  \/ CallBoundingBox
  \/ CallBoxContains
  \/ CallBoxExpandToInclude
  \/ CallCoordinateAdd
  \/ CallCoordinateSubtract
  \/ CallCoordinateMin
  \/ CallCoordinateMax
  \/ CallCoordinateClamp
  \/ CallStaticSum
  \/ CallStaticCoordinateDifference
  \/ CallStaticMin
  \/ CallStaticMax
  \/ CallStaticClamp
  \/ CallCoordinateInvert
  \/ CallCoordinateMultiply
  \/ CallCoordinateRotate
  \/ CallCoordinateNormalize
  \/ CallRotateAroundPoint

SpecMut == MutInit /\ [][MutNext]_vars

----------------------------------------------------------------------------
(* A fourth caller: a size a fitted into a size b, both strictly positive  *)

MaxFit == 4

FitSizes == {Size(FromInt(w), FromInt(hh)) : w \in 1..MaxFit, hh \in 1..MaxFit}
                \cup {Size(FromInt(8), FromInt(3)), Size(FromInt(7), FromInt(1)),
                      Size(FromInt(29), FromInt(5))}

FitInit ==
  /\ heap \in [{"a", "b"} -> FitSizes]
  /\ heap0 = heap
  /\ op = "new"
  /\ this = "none"
  /\ argv = <<>>
  /\ ret = Undefined

\* the receiver's fields are integers: the operands Quotient and Product
\* work out
Integral(size) == IsInt(size.width) /\ IsInt(size.height)

CallScaleToFit ==
  /\ Integral(heap["a"])
  /\ Call("Size.prototype.scaleToFit", "a", <<"b">>,
          Size_prototype_scaleToFit(heap, "a", "b"))

CallFitsInside ==
  Call("Size.prototype.fitsInside", "a", <<"b">>,
       [heap |-> heap, ret |-> Bool(Size_prototype_fitsInside(heap["a"], heap["b"]))])

CallAspectRatio ==
  /\ Integral(heap["a"])
  /\ Call("Size.prototype.aspectRatio", "a", <<>>,
          [heap |-> heap, ret |-> Num(Size_prototype_aspectRatio(heap["a"]))])

FitNext ==
  \/ CallScaleToFit
  \/ CallFitsInside
  \/ CallAspectRatio

SpecFit == FitInit /\ [][FitNext]_vars

----------------------------------------------------------------------------
(* A fifth caller: rectangles and boxes with fields the arithmetic rounds.  *)
(* Its rectangles a and b are drawn from a list of rectangles with          *)
(* fractional, very large and very small fields; its boxes from the boxes   *)
(* of the third caller and from a list of boxes with such fields.           *)

\* 0.1
Tenth == Parts(FALSE, 0 - 4, 53687091, 26843546)
\* 0.2
Fifth == Parts(FALSE, 0 - 3, 53687091, 26843546)
\* 0.3
ThreeTenths == Parts(FALSE, 0 - 2, 40265318, 53687091)
\* 0.4
TwoFifths == Parts(FALSE, 0 - 2, 53687091, 26843546)
\* 0.5
Half == Parts(FALSE, 0 - 1, 33554432, 0)
\* 0.5 - 2^-53, the double next below 0.5
JustBelowHalf == Parts(FALSE, 0 - 2, 67108863, 134217726)
\* 10^16
TenToThe16 == Parts(FALSE, 53, 37252902, 132153344)
\* 10^-17
TenToTheMinus17 == Parts(FALSE, 0 - 57, 48357032, 105305239)
\* 10^-20
TenToTheMinus20 == Parts(FALSE, 0 - 67, 49517601, 76694051)
\* 10^-200
TenToTheMinus200 == Parts(FALSE, 0 - 665, 51368514, 89061292)
\* 1 + 2^-52, the double next above 1
OnePlusUlp == Parts(FALSE, 0, 33554432, 1)
\* 1 + 2^-51
OnePlusTwoUlps == Parts(FALSE, 0, 33554432, 2)
\* 4 + 2^-50, the double next above 4
FourPlusFourUlps == Parts(FALSE, 2, 33554432, 1)
\* 2^-537, whose square 2^-1074 is the smallest positive double
SmallestSquarable == Parts(FALSE, 0 - 537, 33554432, 0)
\* 2^-538, whose square underflows to zero
BelowSquarable == Parts(FALSE, 0 - 538, 33554432, 0)
\* 1.5 * 2^-538, whose square rounds up to 2^-1074
BetweenSquarable == Parts(FALSE, 0 - 538, 50331648, 0)

\* -x: the number of the same size and the opposite sign, -0 for 0
Negated(x) ==
  IF IsInteger(x) THEN (IF x = 0 THEN Zero(TRUE) ELSE 0 - x) ELSE Negative(x)

RoundRects ==
  << Rect(0, 0, 10, 10),
     Rect(5, 5, 10, 10),
     Rect(0 - 1, 0, 2, 1),
     Rect(Negated(Half), 0, JustBelowHalf, 1),
     Rect(0, 0, Tenth, 7),
     Rect(0, 1, 1, 1),
     Rect(Negated(Tenth), 0, 0, 0),
     Rect(0, 0, ThreeTenths, 0),
     Rect(Negated(TenToThe16), 0, 0, 0),
     Rect(0, 0, 1, 0),
     Rect(Tenth, 0, Fifth, 0),
     Rect(0, 0 - 1, 1, 1),
     Rect(0, Negated(TenToTheMinus17), 1, 1),
     Rect(0, 0 - 1, 1, 2),
     Rect(Half, Negated(TenToTheMinus17), 1, 2),
     Rect(1, 1, TenToTheMinus20, TenToTheMinus20),
     Rect(0, 0, 5, 5),
     Rect(Negated(OnePlusTwoUlps), 0, FourPlusFourUlps, 1),
     Rect(Negated(OnePlusUlp), 0, 10, 1) >>

\* a box and a coordinate beside or inside it
RoundBoxes ==
  << <<Box(0, 0, 0, 0), Coordinate(TenToTheMinus200, 0)>>,
     <<Box(0, 0, 0, 0), Coordinate(SmallestSquarable, 0)>>,
     <<Box(0, 0, 0, 0), Coordinate(BetweenSquarable, 0)>>,
     <<Box(0, 0, 0, 0), Coordinate(BelowSquarable, 0)>>,
     <<Box(0, 0, 0, 0), Coordinate(BelowSquarable, BelowSquarable)>>,
     <<Box(0, 1, 1, 0), Coordinate(Negated(SmallestSquarable), Half)>>,
     <<Box(0, 1, 1, 0), Coordinate(Half, Negated(TenToTheMinus200))>>,
     <<Box(Tenth, ThreeTenths, ThreeTenths, Tenth), Coordinate(TwoFifths, Fifth)>>,
     <<Box(Tenth, ThreeTenths, ThreeTenths, Tenth), Coordinate(Fifth, Fifth)>>,
     <<Box(Tenth, ThreeTenths, ThreeTenths, Tenth), Coordinate(0, TwoFifths)>>,
     <<Box(0, 0, 0, 0), Coordinate(3, 4)>>,
     <<Box(0, 0, 0, 0), Coordinate(TenToThe16, 1)>> >>

RoundRectFamily ==
  \E i \in DOMAIN RoundRects, j \in DOMAIN RoundRects :
    heap = [a |-> RoundRects[i], b |-> RoundRects[j], v |-> Coordinate(0, 0)]

RoundBoxFamily ==
  \/ \E b1 \in Boxes, c \in FarCoords :
       heap = [a |-> b1, b |-> Box(0, 1, 1, 0), v |-> c]
  \/ \E i \in DOMAIN RoundBoxes :
       heap = [a |-> RoundBoxes[i][1], b |-> Box(0, 1, 1, 0), v |-> RoundBoxes[i][2]]

RoundInit ==
  /\ RoundRectFamily \/ RoundBoxFamily
  /\ heap0 = heap
  /\ op = "new"
  /\ this = "none"
  /\ argv = <<>>
  /\ ret = Undefined

\* a call made on the objects as they were drawn, before any other call
First(call) == op = "new" /\ call

RoundNext ==
  \/ OnRects(First(CallStaticIntersection))
  \/ OnRects(First(CallStaticDifference))
  \/ OnRects(First(CallBoundingRect))
  \/ OnRects(First(CallStaticBoundingRect))
  \/ OnRects(First(CallToBox))
  \/ First(CallBoxContains)
  \/ First(CallRelativePositionX)
  \/ First(CallRelativePositionY)
  \/ First(CallDistance)

SpecRound == RoundInit /\ [][RoundNext]_vars

----------------------------------------------------------------------------
(* Vocabulary of the properties *)

NonNegative(r) == r.width >= 0 /\ r.height >= 0

Right(r) == r.left + r.width
Bottom(r) == r.top + r.height

\* The same edges and extents of a rectangle whose fields are numbers of
\* either kind
RightEdge(r) == Add(r.left, r.width)
BottomEdge(r) == Add(r.top, r.height)
NonNegativeExtent(r) == Ge(r.width, 0) /\ Ge(r.height, 0)
PositiveExtent(r) == Gt(r.width, 0) /\ Gt(r.height, 0)

\* Two such rectangles share a region of positive area
Overlapping(r, s) ==
  /\ Lt(Math_max(r.left, s.left), Math_min(RightEdge(r), RightEdge(s)))
  /\ Lt(Math_max(r.top, s.top), Math_min(BottomEdge(r), BottomEdge(s)))

\* the areas of the first n of the rectangles rs, added up in their order
RECURSIVE SumArea(_, _)
SumArea(rs, n) ==
  IF n = 0 THEN 0 ELSE Add(SumArea(rs, n - 1), Rect_prototype_area(rs[n].obj))

IsStatic(name) == op = name /\ this = "none"
Arg(i) == heap0[argv[i]]

----------------------------------------------------------------------------
(* C1 *)

\* The intersection of the last Rect.intersection / Rect.difference call's arguments
Intersects0 == Rect_intersects(heap0, argv[1], argv[2]).ret.val
Intersection0 == Rect_intersection(heap0, argv[1], argv[2]).ret

\* C1 as stated: for all rectangles, negative extents included,
\* Rect.intersection(a,b) is null iff Rect.intersects(a,b) is false.
C1_AsStated ==
  IsStatic("Rect.intersection") => ((ret = Null) <=> ~Intersects0)

\* C1 amended: for rectangles a and b of non-negative width and height,
\* Rect.intersection(a,b) is null iff Rect.intersects(a,b) is false; for
\* arbitrary rectangles a non-null intersection implies intersects is true.
C1_IntersectionNullIffNotIntersects ==
  IsStatic("Rect.intersection") =>
    /\ (NonNegative(Arg(1)) /\ NonNegative(Arg(2))) => ((ret = Null) <=> ~Intersects0)
    /\ ret # Null => Intersects0

\* Two rectangles of non-negative extent that only touch: a degenerate intersection
C1_Witness ==
  /\ IsStatic("Rect.intersection")
  /\ NonNegative(Arg(1)) /\ NonNegative(Arg(2))
  /\ ret # Null /\ ret.obj.width = 0 /\ Arg(1).width > 0 /\ Arg(2).width > 0
  /\ Intersects0

----------------------------------------------------------------------------
(* C2 *)

\* the rectangles of a returned array
Objects(elems) == [i \in DOMAIN elems |-> elems[i].obj]

\* the left and right edges, and the top and bottom edges, of the
\* rectangles rs: the points where being inside one of them changes
EdgeXs(rs) ==
  [i \in 1..(2 * Len(rs)) |->
     IF i <= Len(rs) THEN rs[i].left ELSE RightEdge(rs[i - Len(rs)])]
EdgeYs(rs) ==
  [i \in 1..(2 * Len(rs)) |->
     IF i <= Len(rs) THEN rs[i].top ELSE BottomEdge(rs[i - Len(rs)])]

\* C2: Rect.difference(a,b) returns 0 to 4 rectangles that cover exactly the
\* area of a not covered by b: every point of a that lies outside b is inside
\* at least one returned rectangle, and no returned rectangle covers a point
\* outside a or a region of positive area of b.  The points are those on the
\* edges of a, of b and of the returned rectangles.
C2_AsStated ==
  IsStatic("Rect.difference") =>
    /\ ret.kind = "array"
    /\ Len(ret.elems) \in 0..4
    /\ LET bands == Objects(ret.elems)
           xs == EdgeXs(<<Arg(1), Arg(2)>> \o bands)
           ys == EdgeYs(<<Arg(1), Arg(2)>> \o bands)
       IN /\ \A i \in DOMAIN xs, j \in DOMAIN ys :
               LET p == Coordinate(xs[i], ys[j])
                   inBand == \E k \in DOMAIN bands : Rect_prototype_contains(bands[k], p)
               IN /\ (Rect_prototype_contains(Arg(1), p)
                        /\ ~Rect_prototype_contains(Arg(2), p)) => inBand
                  /\ inBand => Rect_prototype_contains(Arg(1), p)
          /\ \A k \in DOMAIN bands : ~Overlapping(bands[k], Arg(2))

----------------------------------------------------------------------------
(* C3 *)

PairwiseDisjoint(rs) ==
  \A i \in 1..Len(rs), j \in 1..Len(rs) : i # j => ~Overlapping(rs[i].obj, rs[j].obj)

\* C3: when Rect.intersects(a,b) is true and a has non-negative width and
\* height, the rectangles of Rect.difference(a,b) are pairwise
\* non-overlapping and their areas plus Rect.intersection(a,b).area() add up
\* to a.area().
C3_AsStated ==
  (IsStatic("Rect.difference") /\ Intersects0 /\ NonNegativeExtent(Arg(1))) =>
    /\ PairwiseDisjoint(ret.elems)
    /\ Intersection0 # Null
    /\ Eq(Add(SumArea(ret.elems, Len(ret.elems)),
              Rect_prototype_area(Intersection0.obj)),
          Rect_prototype_area(Arg(1)))

----------------------------------------------------------------------------
(* C4 *)

\* C4: when a and b do not intersect, or their intersection has zero width or
\* zero height, Rect.difference(a,b) returns exactly one rectangle, a new
\* object whose fields equal those of a.
C4_DifferenceOfDisjointIsClone ==
  (IsStatic("Rect.difference") /\
     (~Intersects0 \/ Intersection0 = Null
        \/ Intersection0.obj.width = 0 \/ Intersection0.obj.height = 0)) =>
    /\ ret.kind = "array" /\ Len(ret.elems) = 1
    /\ ret.elems[1].kind = "new"
    /\ Rect_equals(heap, ret.elems[1], Ref(argv[1]))
    /\ heap = heap0

\* b is a zero-width sliver strictly inside a
C4_Witness ==
  /\ IsStatic("Rect.difference")
  /\ Intersection0 # Null /\ Intersection0.obj.width = 0
  /\ Intersection0.obj.height > 0
  /\ Arg(1).left < Arg(2).left /\ Right(Arg(2)) < Right(Arg(1))
  /\ Arg(1).top < Arg(2).top /\ Bottom(Arg(2)) < Bottom(Arg(1))
  /\ Len(ret.elems) = 1

----------------------------------------------------------------------------
(* C5 *)

\* The remainder bands as the claim lists them, for rectangles A and B
ExpectedBands(A, B) ==
  LET workingTop == Max(A.top, B.top)
      workingHeight == Min(Bottom(A), Bottom(B)) - workingTop
      topBand == IF B.top > A.top
                 THEN <<New(Rect(A.left, A.top, A.width, B.top - A.top))>> ELSE <<>>
      bottomBand == IF Bottom(B) < Bottom(A)
                    THEN <<New(Rect(A.left, Bottom(B), A.width, Bottom(A) - Bottom(B)))>>
                    ELSE <<>>
      leftBand == IF B.left > A.left
                  THEN <<New(Rect(A.left, workingTop, B.left - A.left, workingHeight))>>
                  ELSE <<>>
      rightBand == IF Right(B) < Right(A)
                   THEN <<New(Rect(Right(B), workingTop, Right(A) - Right(B), workingHeight))>>
                   ELSE <<>>
  IN topBand \o bottomBand \o leftBand \o rightBand

ExampleHeap == [a |-> Rect(0, 0, 10, 10), b |-> Rect(5, 5, 10, 10)]

\* C5: with a positive-area intersection Rect.difference(a,b) returns the
\* bands in the order top, bottom, left, right, each present only under its
\* condition, the left and right bands using the vertical extent left after
\* the top and bottom bands; Rect(0,0,10,10) minus Rect(5,5,10,10) is
\* [Rect(0,0,10,5), Rect(0,5,5,5)].
C5_DifferenceBandOrder ==
  /\ (IsStatic("Rect.difference") /\ Intersection0 # Null
        /\ Intersection0.obj.width > 0 /\ Intersection0.obj.height > 0) =>
       ret = Arr(ExpectedBands(Arg(1), Arg(2)))
  /\ IsStatic("Rect.difference") =>
       Rect_difference(ExampleHeap, "a", "b").ret
         = Arr(<<New(Rect(0, 0, 10, 5)), New(Rect(0, 5, 5, 5))>>)

\* The scenario of the claim at the scale of the model: a top and a left band
C5_Witness ==
  /\ IsStatic("Rect.difference")
  /\ Arg(1) = Rect(0, 0, 2, 2) /\ Arg(2) = Rect(1, 1, 2, 2)
  /\ ret = Arr(<<New(Rect(0, 0, 2, 1)), New(Rect(0, 1, 1, 1))>>)

----------------------------------------------------------------------------
(* C6 *)

IsMethod(name) == op = name /\ this # "none"
This0 == heap0[this]

\* C6: r.intersection(rect), with x0 = max of the lefts, x1 = min of the
\* rights, y0 = max of the tops, y1 = min of the bottoms: if x0 <= x1 and
\* y0 <= y1 it sets r to (x0, y0, x1-x0, y1-y0) and returns true, also when
\* the result has zero width or height; otherwise it returns false and
\* leaves r unchanged.  The argument is unchanged in both cases.
C6_IntersectionInPlace ==
  IsMethod("Rect.prototype.intersection") =>
    LET x0 == Max(This0.left, Arg(1).left)
        x1 == Min(Right(This0), Right(Arg(1)))
        y0 == Max(This0.top, Arg(1).top)
        y1 == Min(Bottom(This0), Bottom(Arg(1)))
    IN /\ IF x0 <= x1 /\ y0 <= y1
          THEN ret = Bool(TRUE) /\ heap[this] = Rect(x0, y0, x1 - x0, y1 - y0)
          ELSE ret = Bool(FALSE) /\ heap[this] = This0
       /\ heap[argv[1]] = Arg(1)
       /\ \A id \in DOMAIN heap : id # this => heap[id] = heap0[id]

\* Two rectangles of positive area that touch along an edge: the receiver
\* becomes the zero-width intersection
C6_Witness ==
  /\ IsMethod("Rect.prototype.intersection")
  /\ This0.width > 0 /\ This0.height > 0 /\ Arg(1).width > 0 /\ Arg(1).height > 0
  /\ ret = Bool(TRUE) /\ heap[this].width = 0 /\ heap[this].height > 0
  /\ heap[this] # This0

----------------------------------------------------------------------------
(* C7 *)

\* C7: Rect.intersection(a,b) returns null exactly when a.intersection(b)
\* returns false, and otherwise a new Rect whose fields equal those the
\* instance call leaves in a; the static call changes neither a nor b.
C7_StaticEqualsInstance ==
  IsStatic("Rect.intersection") =>
    LET inst == Rect_prototype_intersection(heap0, argv[1], argv[2])
    IN /\ (ret = Null) <=> (inst.ret = Bool(FALSE))
       /\ ret # Null =>
            /\ ret.kind = "new"
            /\ inst.ret = Bool(TRUE)
            /\ Rect_equals(inst.heap, ret, Ref(argv[1]))
       /\ heap = heap0

\* A proper overlap: the result differs from both arguments
C7_Witness ==
  /\ IsStatic("Rect.intersection")
  /\ ret # Null /\ ret.obj.width > 0 /\ ret.obj.height > 0
  /\ ~Rect_equals(heap, ret, Ref(argv[1])) /\ ~Rect_equals(heap, ret, Ref(argv[2]))

----------------------------------------------------------------------------
(* C8 *)

\* r is the bounding rectangle of A and B
IsBounding(r, A, B) ==
  /\ Eq(r.left, Math_min(A.left, B.left))
  /\ Eq(r.top, Math_min(A.top, B.top))
  /\ Eq(RightEdge(r), Math_max(RightEdge(A), RightEdge(B)))
  /\ Eq(BottomEdge(r), Math_max(BottomEdge(A), BottomEdge(B)))
  /\ Rect_prototype_contains(r, A)
  /\ Rect_prototype_contains(r, B)

\* C8: after a.boundingRect(b), and in the result of Rect.boundingRect(a,b),
\* left and top are the minima of both lefts and tops, left+width and
\* top+height the maxima of both rights and bottoms, all taken from the
\* values before the call, so that the result contains the original a and b;
\* the static form returns null if either argument is null and changes
\* neither a nor b.
C8_AsStated ==
  /\ IsMethod("Rect.prototype.boundingRect") =>
       /\ IsBounding(heap[this], This0, Arg(1))
       /\ \A id \in DOMAIN heap : id # this => heap[id] = heap0[id]
  /\ IsStatic("Rect.boundingRect") =>
       /\ heap = heap0
       /\ IF argv[1] = NullRef \/ argv[2] = NullRef
          THEN ret = Null
          ELSE ret.kind = "new" /\ IsBounding(ret.obj, Arg(1), Arg(2))

----------------------------------------------------------------------------
(* C9 *)

\* C9: for a Rect r of non-negative width and height,
\* Rect.equals(Rect.createFromBox(r.toBox()), r) is true, where toBox takes
\* right = left + width and bottom = top + height.
C9_AsStated ==
  (IsMethod("Rect.prototype.toBox") /\ NonNegativeExtent(This0)) =>
    /\ ret.kind = "new" /\ ret.obj.cls = "Box"
    /\ Eq(ret.obj.right, Add(This0.left, This0.width))
    /\ Eq(ret.obj.bottom, Add(This0.top, This0.height))
    /\ Rect_equals(heap, Rect_createFromBox(ret.obj), Ref(this))

----------------------------------------------------------------------------
(* C10 *)

ChainingMutators ==
  {c \o ".prototype." \o m : c \in {"Rect", "Box", "Size", "Coordinate"},
                              m \in {"ceil", "floor", "round", "translate", "scale"}}
    \ {"Size.prototype.translate", "Box.prototype.translate", "Box.prototype.scale"}

ListedMutators ==
  ChainingMutators \cup
    {"Box.prototype.translate", "Box.prototype.scale", "Box.prototype.expand",
     "Rect.prototype.boundingRect", "Rect.prototype.intersection"}

----------------------------------------------------------------------------
(* C11 *)

ArgObjs == {heap0[argv[i]] : i \in 1..Len(argv)}

BoundingExample ==
  Box_boundingBox([a |-> Coordinate(1, 5), b |-> Coordinate(3, 2),
                   v |-> Coordinate(0 - 1, 4)], <<"a", "b", "v">>).ret

\* C11: Box.boundingBox of one or more coordinates returns the Box whose top
\* and bottom are the least and greatest y and whose left and right are the
\* least and greatest x, whatever the order of the arguments, so that it
\* contains each of them; boundingBox((1,5),(3,2),(-1,4)) is
\* Box(top=2, right=3, bottom=5, left=-1); with no coordinate it fails.
C11_BoundingBox ==
  IsStatic("Box.boundingBox") =>
    /\ IF argv = <<>>
       THEN ret.kind = "throw"
       ELSE /\ ret.kind = "new" /\ ret.obj.cls = "Box"
            /\ \A c \in ArgObjs :
                 /\ ret.obj.top <= c.y /\ c.y <= ret.obj.bottom
                 /\ ret.obj.left <= c.x /\ c.x <= ret.obj.right
            /\ \E c \in ArgObjs : ret.obj.top = c.y
            /\ \E c \in ArgObjs : ret.obj.bottom = c.y
            /\ \E c \in ArgObjs : ret.obj.left = c.x
            /\ \E c \in ArgObjs : ret.obj.right = c.x
    /\ BoundingExample = New(Box(2, 3, 5, 0 - 1))
    /\ heap = heap0

\* Three coordinates, the rightmost one last and the topmost one second
C11_Witness ==
  /\ IsStatic("Box.boundingBox") /\ Len(argv) = 3
  /\ heap0[argv[3]].x > heap0[argv[1]].x /\ heap0[argv[3]].x > heap0[argv[2]].x
  /\ heap0[argv[2]].y < heap0[argv[1]].y /\ heap0[argv[2]].y < heap0[argv[3]].y
  /\ ret.obj.right = heap0[argv[3]].x /\ ret.obj.top = heap0[argv[2]].y

----------------------------------------------------------------------------
(* C12 *)

AbsOf(x) == IF Lt(x, 0) THEN Sub(0, x) ELSE x

\* d is the signed offset of p from the nearer of the two edges lo and hi
\* of a band, zero inside it
IsNearestEdgeOffset(d, p, lo, hi) ==
  IF Le(lo, p) /\ Le(p, hi) THEN Eq(d, 0)
  ELSE \/ Eq(d, Sub(p, lo)) /\ Le(AbsOf(Sub(p, lo)), AbsOf(Sub(p, hi)))
       \/ Eq(d, Sub(p, hi)) /\ Le(AbsOf(Sub(p, hi)), AbsOf(Sub(p, lo)))

Inside0 ==
  /\ Le(Arg(1).left, Arg(2).x) /\ Le(Arg(2).x, Arg(1).right)
  /\ Le(Arg(1).top, Arg(2).y) /\ Le(Arg(2).y, Arg(1).bottom)

\* the offsets the distance is taken from
OffsetX0 == Box_relativePositionX(Arg(1), Arg(2))
OffsetY0 == Box_relativePositionY(Arg(1), Arg(2))

\* an offset whose square is a positive double: 2^-537 or more in size
Squarable(d) == Ge(AbsOf(d), SmallestSquarable)

----------------------------------------------------------------------------
(* C13 *)

\* the four margins of a call of expand: the fields of the object passed,
\* or the four numbers
Margins ==
  IF argv[1].kind = "ref"
  THEN [top |-> heap0[argv[1].id].top, right |-> heap0[argv[1].id].right,
        bottom |-> heap0[argv[1].id].bottom, left |-> heap0[argv[1].id].left]
  ELSE [top |-> argv[1].val, right |-> argv[2].val,
        bottom |-> argv[3].val, left |-> argv[4].val]

\* C13: box.expand(margins) and box.expand(top, right, bottom, left)
\* subtract the top and left margins from top and left, add the right and
\* bottom margins to right and bottom and return the receiver; with
\* non-negative margins the expanded box contains the box as it was.
C13_AsStated ==
  IsMethod("Box.prototype.expand") =>
    /\ ret = Ref(this)
    /\ heap[this] = Box(This0.top - Margins.top, This0.right + Margins.right,
                        This0.bottom + Margins.bottom, This0.left - Margins.left)
    /\ (Margins.top >= 0 /\ Margins.right >= 0 /\ Margins.bottom >= 0
          /\ Margins.left >= 0) =>
         Box_contains(("before" :> This0) @@ heap, this, "before")

----------------------------------------------------------------------------
(* C14 *)

\* the exact product n * x: its digits up to the last 1, and its exponent
ExactProduct(n, x) ==
  LET digits == MultiplyDigits(n, x.bits)
      last == CHOOSE i \in 1..Len(digits) :
                digits[i] = 1 /\ \A j \in (i + 1)..Len(digits) : digits[j] = 0
  IN [e |-> x.e + Len(digits) - P, digits |-> SubSeq(digits, 1, last)]

\* C14: for sizes s and t of strictly positive width and height,
\* s.scaleToFit(t) multiplies both fields of s by one factor, t.width/s.width
\* when the aspect ratio of s exceeds that of t and t.height/s.height
\* otherwise; the aspect ratio is preserved, the result fits inside t and
\* one of its dimensions equals t's; Size(4,3).scaleToFit(Size(8,3)) leaves
\* Size(4,3) unchanged.
C14_AsStated ==
  IsMethod("Size.prototype.scaleToFit") =>
    LET factor == IF Less(Quotient(Arg(1).width, Arg(1).height),
                          Quotient(This0.width, This0.height))
                  THEN Quotient(Arg(1).width, This0.width)
                  ELSE Quotient(Arg(1).height, This0.height)
    IN /\ ret = Ref(this)
       /\ heap[this].width = Product(This0.width, factor)
       /\ heap[this].height = Product(This0.height, factor)
       /\ ExactProduct(ToInt(This0.height), heap[this].width)
            = ExactProduct(ToInt(This0.width), heap[this].height)
       /\ AtMost(heap[this].width, Arg(1).width)
       /\ AtMost(heap[this].height, Arg(1).height)
       /\ heap[this].width = Arg(1).width \/ heap[this].height = Arg(1).height
       /\ heap[argv[1]] = Arg(1)
       /\ (This0 = Size(FromInt(4), FromInt(3)) /\ Arg(1) = Size(FromInt(8), FromInt(3)))
            => heap[this] = This0

\* Size(7,1).scaleToFit(Size(29,5)): the width comes out above 29
C14_TooWide ==
  /\ IsMethod("Size.prototype.scaleToFit")
  /\ This0 = Size(FromInt(7), FromInt(1)) /\ Arg(1) = Size(FromInt(29), FromInt(5))
  /\ Less(FromInt(29), heap[this].width)

----------------------------------------------------------------------------
(* C15 *)

\* C15: Box.contains(box, box) is true for any Box, whatever its four
\* fields, a box with right < left or bottom < top included.
C15_ContainsReflexive ==
  (IsStatic("Box.contains") /\ argv[1] # NullRef /\ argv[2] = argv[1]) =>
    ret = Bool(TRUE)

\* A box inverted on both axes, asked whether it contains itself
C15_Witness ==
  /\ IsStatic("Box.contains") /\ argv = <<"a", "a">>
  /\ Arg(1).right < Arg(1).left /\ Arg(1).bottom < Arg(1).top
  /\ ret = Bool(TRUE)

----------------------------------------------------------------------------
(* C16 *)

\* C16: r.contains(other) of a Rect is true exactly when r.left <=
\* other.left, r.top <= other.top, r.left + r.width >= other.left +
\* other.width and r.top + r.height >= other.top + other.height; r.contains(c)
\* of a Coordinate is true exactly when r.left <= c.x <= r.left + r.width and
\* r.top <= c.y <= r.top + r.height; a point on the boundary and the rect
\* itself are contained.
C16_ContainsInclusive ==
  IsMethod("Rect.prototype.contains") =>
    /\ ret.kind = "bool"
    /\ Arg(1).cls = "Rect" =>
         (ret.val <=> /\ This0.left <= Arg(1).left
                      /\ This0.top <= Arg(1).top
                      /\ Right(This0) >= Right(Arg(1))
                      /\ Bottom(This0) >= Bottom(Arg(1)))
    /\ Arg(1).cls = "Coordinate" =>
         (ret.val <=> /\ This0.left <= Arg(1).x /\ Arg(1).x <= Right(This0)
                      /\ This0.top <= Arg(1).y /\ Arg(1).y <= Bottom(This0))
    /\ argv[1] = this => ret.val
    /\ (/\ Arg(1).cls = "Coordinate" /\ NonNegative(This0)
        /\ Arg(1).x \in {This0.left, Right(This0)}
        /\ Arg(1).y \in This0.top..Bottom(This0)) => ret.val
    /\ heap = heap0

\* A coordinate on the right edge of a rectangle of positive extent
C16_Witness ==
  /\ IsMethod("Rect.prototype.contains") /\ Arg(1).cls = "Coordinate"
  /\ This0.width > 0 /\ This0.height > 0
  /\ Arg(1).x = Right(This0) /\ Arg(1).y = This0.top
  /\ ret = Bool(TRUE)

----------------------------------------------------------------------------
(* C17 *)

FrameStatics ==
  {"Rect.intersection", "Rect.intersects", "Rect.difference", "Rect.boundingRect",
   "Rect.createFromBox", "Box.boundingBox", "Box.contains",
   "Coordinate.rotateAroundPoint", "Coordinate.min", "Coordinate.max",
   "Coordinate.clamp", "Coordinate.sum", "Coordinate.difference"}

FrameMutators ==
  {"Rect.prototype.intersection", "Rect.prototype.boundingRect",
   "Box.prototype.expandToInclude", "Box.prototype.expand",
   "Coordinate.prototype.add", "Coordinate.prototype.subtract",
   "Coordinate.prototype.min", "Coordinate.prototype.max",
   "Coordinate.prototype.clamp"}

\* C17: the static factories and queries leave the fields of every object
\* as they were; the in-place methods change the fields of their receiver
\* only, so an argument that is another object keeps its fields;
\* Coordinate.rotateAroundPoint returns a new instance and leaves v and
\* axisPoint untouched.
C17_Frame ==
  /\ (op \in FrameStatics /\ this = "none") => heap = heap0
  /\ (op \in FrameMutators /\ this # "none") =>
       \A id \in DOMAIN heap0 \ {this} : heap[id] = heap0[id]
  /\ IsStatic("Coordinate.rotateAroundPoint") =>
       /\ ret.kind = "new"
       /\ heap[argv[1]] = Arg(1) /\ heap[argv[2]] = Arg(2)

\* A quarter turn of v about another point: the result differs from v,
\* which is as it was
C17_Witness ==
  /\ IsStatic("Coordinate.rotateAroundPoint") /\ argv[1] # argv[2]
  /\ ret.kind = "new" /\ ret.obj # Arg(1)
  /\ heap[argv[1]] = Arg(1)

----------------------------------------------------------------------------
(* C18 *)

ToBox0(i) == Rect_prototype_toBox(heap0, argv[i]).ret.obj

Proper(box) == box.left <= box.right /\ box.top <= box.bottom

\* two proper boxes that share a stretch of an edge and nothing more:
\* side by side, or one above the other
TouchOnly(a, b) ==
  /\ Proper(a) /\ Proper(b)
  /\ \/ (a.right = b.left \/ b.right = a.left)
          /\ a.top <= b.bottom /\ b.top <= a.bottom
     \/ (a.bottom = b.top \/ b.bottom = a.top)
          /\ a.left <= b.right /\ b.left <= a.right

\* C18: Box.intersects(r1.toBox(), r2.toBox()) equals Rect.intersects(r1, r2)
\* for all rects; boxes that only touch along an edge intersect;
\* Box.intersectsWithPadding(a, b, p) relaxes each of the four bounds by p,
\* equals Box.intersects(a, b) for p = 0, and once true stays true for any
\* larger p.
C18_BoxIntersects ==
  /\ IsStatic("Rect.intersects") =>
       ret = Bool(Box_intersects(ToBox0(1), ToBox0(2)))
  /\ IsStatic("Box.intersects") =>
       /\ TouchOnly(Arg(1), Arg(2)) => ret = Bool(TRUE)
       /\ ret = Bool(Box_intersectsWithPadding(Arg(1), Arg(2), 0))
  /\ IsStatic("Box.intersectsWithPadding") =>
       /\ ret.val <=> /\ Arg(1).left <= Arg(2).right + argv[3].val
                      /\ Arg(2).left <= Arg(1).right + argv[3].val
                      /\ Arg(1).top <= Arg(2).bottom + argv[3].val
                      /\ Arg(2).top <= Arg(1).bottom + argv[3].val
       /\ argv[3].val = 0 => ret = Bool(Box_intersects(Arg(1), Arg(2)))
       /\ ret.val => \A q \in argv[3].val..(MaxPad + 1) :
                       Box_intersectsWithPadding(Arg(1), Arg(2), q)

\* Two boxes of positive extent side by side, sharing one edge
C18_Witness ==
  /\ IsStatic("Box.intersects")
  /\ Arg(1).left < Arg(1).right /\ Arg(1).top < Arg(1).bottom
  /\ Arg(2).left < Arg(2).right /\ Arg(2).top < Arg(2).bottom
  /\ Arg(2).right = Arg(1).left
  /\ ret = Bool(TRUE)

----------------------------------------------------------------------------
(* C19 *)

\* C19: a receiver of non-negative width and height keeps them non-negative
\* through each call of intersection(r) and boundingRect(r) with an r of
\* non-negative width and height and through each call of translate, hence
\* through any sequence of such calls; and an intersection that returns true
\* leaves width >= 0 and height >= 0 whatever the receiver and r were.
C19_NonNegativePreserved ==
  /\ (/\ op \in {"Rect.prototype.intersection", "Rect.prototype.boundingRect"}
      /\ this # "none"
      /\ NonNegative(This0) /\ NonNegative(Arg(1))) => NonNegative(heap[this])
  /\ (IsMethod("Rect.prototype.translate") /\ NonNegative(This0)) =>
       /\ NonNegative(heap[this])
       /\ heap[this].width = This0.width /\ heap[this].height = This0.height
  /\ (IsMethod("Rect.prototype.intersection") /\ ret = Bool(TRUE)) =>
       NonNegative(heap[this])

\* A receiver that was moved and widened before, cut down to the part it
\* shares with r
C19_Witness ==
  /\ IsMethod("Rect.prototype.intersection") /\ ret = Bool(TRUE)
  /\ This0.left < 0 /\ This0.width > 1
  /\ heap[this].width < This0.width /\ NonNegative(heap[this])

----------------------------------------------------------------------------
(* C20 *)

\* the answer of Rect.intersection(r, b) for a returned rectangle r
IntersectionWith(r, b) ==
  Rect_intersection([r |-> r, b |-> b], "r", "b").ret

\* C20: when a and b have an intersection of non-zero width and height,
\* every rectangle Rect.difference(a, b) returns has strictly positive width
\* and height, is contained in a (a.contains(r)), and has no overlap of
\* positive area with b: Rect.intersection(r, b) is null or has zero width
\* or zero height.
C20_AsStated ==
  (IsStatic("Rect.difference") /\ Intersection0 # Null
     /\ ~Eq(Intersection0.obj.width, 0) /\ ~Eq(Intersection0.obj.height, 0)) =>
    \A i \in 1..Len(ret.elems) :
      LET r == ret.elems[i].obj
      IN /\ PositiveExtent(r)
         /\ Rect_prototype_contains(Arg(1), r)
         /\ \/ IntersectionWith(r, Arg(2)) = Null
            \/ Eq(IntersectionWith(r, Arg(2)).obj.width, 0)
            \/ Eq(IntersectionWith(r, Arg(2)).obj.height, 0)

-----------------------------------------------------------------------------
(* C21 *)

\* a has strictly positive extent and b.contains(a) holds
CoveredBy(A, B) ==
  PositiveExtent(A) /\ Rect_prototype_contains(B, A)

\* C21: Rect.difference(a,b) returns an empty sequence if and only if a has
\* strictly positive width and height and b contains a (b.contains(a) is
\* true); in every other case it returns at least one rectangle.
C21_AsStated ==
  IsStatic("Rect.difference") =>
    /\ ret.kind = "array"
    /\ (Len(ret.elems) = 0) <=> CoveredBy(Arg(1), Arg(2))
    /\ ~CoveredBy(Arg(1), Arg(2)) => Len(ret.elems) >= 1

-----------------------------------------------------------------------------
(* C22 *)

\* Rect.intersection of the same two rectangles in the opposite order
Swapped0 == Rect_intersection(heap0, argv[2], argv[1]).ret

\* C22: static Rect.intersection is commutative and contracting: for all
\* rectangles a, b, Rect.intersection(a,b) and Rect.intersection(b,a) are
\* either both null or field-equal (Rect.equals), and a non-null result is
\* contained in both a and b (a.contains(result) and b.contains(result)).
C22_AsStated ==
  IsStatic("Rect.intersection") =>
    /\ \/ ret = Null /\ Swapped0 = Null
       \/ /\ ret # Null /\ Swapped0 # Null
          /\ Rect_equals(heap, ret, Swapped0)
    /\ ret # Null =>
         /\ Rect_prototype_contains(Arg(1), ret.obj)
         /\ Rect_prototype_contains(Arg(2), ret.obj)

====
